---- MODULE Spec2Model ----
(***************************************************************************)
(* State-machine model of the Radix Engine kernel                          *)
(* (radix-engine/src/engine/kernel.rs): the call-frame stack, the nodes    *)
(* each frame owns, the references it can see, the Track substate locks,   *)
(* and the invocation protocol of invoke_function / invoke_method / run.   *)
(***************************************************************************)
EXTENDS Integers, Sequences, FiniteSets, TLC

\* ------------------------------------------------------------------ bounds
MaxDepth == 2           \* Kernel::max_depth, a constructor parameter
MaxBuckets == 1         \* bucket ids the id allocator may issue
MaxProofs == 1          \* proof ids the id allocator may issue
MaxContainers == 1      \* ids per class of vault / kv-store / component / package / resource
MaxArgs == 2            \* node ids named in one input or output payload
MaxAmount == 1          \* largest amount put in a created bucket / worktop
MaxNodes == 2           \* nodes created in one transaction
MaxFrames == 3          \* call frames the explored stacks hold: no deeper frame is pushed
MaxFee == 5             \* cost units in the fee reserve of a metered transaction

\* ------------------------------------------------------------- identifiers
NoNode == <<"None", 0>>
WorktopId == <<"Worktop", 0>>

\* Node ids already on ledger when the transaction starts.
StoredComponent == <<"Component", 0>>
StoredPackage == <<"Package", 0>>
StoredResource == <<"ResourceManager", 0>>
StoredVault == <<"Vault", 0>>

BucketIds == {<<"Bucket", n>> : n \in 1..MaxBuckets}
ProofIds == {<<"Proof", n>> : n \in 1..MaxProofs}
VaultIds == {<<"Vault", n>> : n \in 0..MaxContainers}
KeyValueStoreIds == {<<"KeyValueStore", n>> : n \in 1..MaxContainers}
ComponentIds == {<<"Component", n>> : n \in 0..MaxContainers}
PackageIds == {<<"Package", n>> : n \in 0..MaxContainers}
ResourceIds == {<<"ResourceManager", n>> : n \in 0..MaxContainers}

\* The id classes a ScryptoValue can name as owned nodes (ScryptoValue::node_ids).
PayloadIds == BucketIds \cup ProofIds \cup VaultIds \cup KeyValueStoreIds

Kind(id) == id[1]

\* Substate ids are <<offset, node id>>.
SubstateIds ==
    {<<"ComponentInfo", c>> : c \in ComponentIds}
        \cup {<<"ComponentState", c>> : c \in ComponentIds}
        \cup {<<"Package", p>> : p \in PackageIds}
        \cup {<<"ResourceManager", r>> : r \in ResourceIds}
        \cup {<<"Vault", v>> : v \in VaultIds}

VARIABLES
    call_frames,      \* Kernel::call_frames
    id_allocator,     \* Kernel::id_allocator: one counter per id class
    container_locks,  \* lock count of each bucket's shared resource container
    track_locks,      \* Track: lock state of each substate (0 free, n > 0 readers, -1 writer)
    track_substates,  \* Track: substates that exist in Track / the store
    track_nodes,      \* Track: nodes moved to the store, with their value
    err,              \* the RuntimeError the transaction ended with, or "none"
    failed_call,      \* the kernel call that returned err
    completed_call,   \* the invocation the last step has started, or whose return Ok it was
    fee_reserve,      \* Kernel::fee_reserve: the cost units left
    fee_table,        \* Kernel::fee_table: the cost of each entry
    substate_store,   \* the store under Track: the node values that persist if the
                      \* transaction aborts
    heap,             \* Heap::nodes
    heap_call,        \* the last call on the Heap, with its result
    id_generators,    \* SubstateIdGenerator {tx_hash, count}, two of them
    generator_calls,  \* of each generator: the calls of next so far and what the last returned
    conversion,       \* the last conversion between a value and its bytes
    move_stack,       \* Heap::move_node_to_store in progress: the child sets still to visit
    kv_store,         \* the entry substates and locks a KeyValueStore works on
    parser,           \* Parser {tokens, current} and what the last parse returned
    drop_call         \* the RENode::drop_values in progress: the values left, the drops run

\* The state of the objects used apart from a kernel.
lib_vars == <<heap, heap_call, id_generators, generator_calls, conversion, move_stack,
              kv_store, parser, drop_call>>

\* The state of a kernel.
kernel_vars == <<call_frames, id_allocator, container_locks, track_locks, track_substates,
                 track_nodes, err, failed_call, completed_call, fee_reserve, fee_table,
                 substate_store>>

vars == <<call_frames, id_allocator, container_locks, track_locks, track_substates,
          track_nodes, err, failed_call, completed_call, fee_reserve, fee_table,
          substate_store, heap, heap_call, id_generators, generator_calls, conversion,
          move_stack, kv_store, parser, drop_call>>

\* ------------------------------------------------------------- node values
\* A heap node: kind, resource amount (bucket, vault, worktop), the restricted
\* flag and the locked source container of a proof.
Node(kind, amount, restricted, src) ==
    [kind |-> kind, amount |-> amount, restricted |-> restricted, src |-> src]

\* HeapRootRENode {root, child_nodes}
RootNode(node, children) == [root |-> node, child_nodes |-> children]

EmptyMap == [x \in {} |-> NoNode]

Restrict(f, S) == [x \in S |-> f[x]]
Without(f, S) == [x \in DOMAIN f \ S |-> f[x]]

RECURSIVE SumOver(_, _)
SumOver(f, S) ==
    IF S = {} THEN 0
    ELSE LET x == CHOOSE y \in S : TRUE
         IN f[x] + SumOver(f, S \ {x})

NoCall == [op |-> "none"]

\* ------------------------------------------------------------------ Track
\* Track::acquire_lock(substate_id, mutable, write_through): "NotFound" for a
\* substate Track does not hold, "Reentrancy" for an incompatible lock.
acquire_lock_result(locks, substates, sid, mutable) ==
    IF sid \notin substates THEN "NotFound"
    ELSE IF mutable /\ locks[sid] # 0 THEN "Reentrancy"
    ELSE IF ~mutable /\ locks[sid] < 0 THEN "Reentrancy"
    ELSE "Ok"

acquire_lock(locks, sid, mutable) ==
    [locks EXCEPT ![sid] = IF mutable THEN -1 ELSE @ + 1]

\* Track::release_lock(substate_id, write_through)
release_lock(locks, sid) ==
    [locks EXCEPT ![sid] = IF @ < 0 THEN 0 ELSE IF @ > 0 THEN @ - 1 ELSE 0]

RECURSIVE release_all(_, _)
release_all(locks, locked_values) ==
    IF locked_values = {} THEN locks
    ELSE LET l == CHOOSE x \in locked_values : TRUE
         IN release_all(release_lock(locks, l[1]), locked_values \ {l})

\* ------------------------------------------------------------- node rules
\* RENode::verify_can_move
verify_can_move(node, clocks, id) ==
    IF node.kind = "Bucket" THEN
        IF clocks[id] > 0 THEN "CantMoveLockedBucket" ELSE "Ok"
    ELSE IF node.kind = "Proof" THEN
        IF node.restricted THEN "CantMoveRestrictedProof" ELSE "Ok"
    ELSE "Ok"

verify_can_persist_any(node) == "Ok"

\* RENode::verify_can_persist
verify_can_persist(node) ==
    IF node.kind \in {"KeyValueStore", "Component", "Vault"} THEN "Ok"
    ELSE "ValueNotAllowed"

\* Worktop::drop: a worktop can be dropped only when it holds nothing.
worktop_drop(node) ==
    IF node.amount = 0 THEN "Ok" ELSE "DropFailure::Worktop"

\* Proof::drop releases the lock the proof holds on its source container.
proof_drop(node, clocks) ==
    IF node.src \in DOMAIN clocks /\ clocks[node.src] > 0
    THEN [clocks EXCEPT ![node.src] = @ - 1]
    ELSE clocks

try_drop_vault_dropped(node) ==
    CASE node.kind = "Package" -> "DropFailure::Package"
      [] node.kind = "KeyValueStore" -> "DropFailure::KeyValueStore"
      [] node.kind = "Component" -> "DropFailure::Component"
      [] node.kind = "Bucket" -> "DropFailure::Bucket"
      [] node.kind = "ResourceManager" -> "DropFailure::Resource"
      [] node.kind = "Worktop" -> worktop_drop(node)
      [] OTHER -> "Ok"

\* RENode::try_drop, the result
try_drop(node) ==
    CASE node.kind = "Package" -> "DropFailure::Package"
      [] node.kind = "Vault" -> "DropFailure::Vault"
      [] node.kind = "KeyValueStore" -> "DropFailure::KeyValueStore"
      [] node.kind = "Component" -> "DropFailure::Component"
      [] node.kind = "Bucket" -> "DropFailure::Bucket"
      [] node.kind = "ResourceManager" -> "DropFailure::Resource"
      [] node.kind = "Proof" -> "Ok"
      [] node.kind = "Worktop" -> worktop_drop(node)
      [] OTHER -> "Ok"

\* RENode::drop_values over the vector `values` of root nodes, from index i:
\* every non-worktop is dropped in order, the first failure ends the call,
\* and the worktops collected on the way are dropped afterwards.
RECURSIVE drop_worktops(_, _, _)
drop_worktops(worktops, i, clocks) ==
    IF i > Len(worktops) THEN [res |-> "Ok", clocks |-> clocks]
    ELSE IF worktop_drop(worktops[i]) # "Ok"
         THEN [res |-> worktop_drop(worktops[i]), clocks |-> clocks]
         ELSE drop_worktops(worktops, i + 1, clocks)

RECURSIVE drop_values_from(_, _, _, _)
drop_values_from(values, i, worktops, clocks) ==
    IF i > Len(values) THEN drop_worktops(worktops, 1, clocks)
    ELSE IF values[i].kind = "Worktop"
         THEN drop_values_from(values, i + 1, Append(worktops, values[i]), clocks)
         ELSE IF try_drop(values[i]) # "Ok"
              THEN [res |-> try_drop(values[i]), clocks |-> clocks]
              ELSE drop_values_from(values, i + 1, worktops,
                                    IF values[i].kind = "Proof"
                                    THEN proof_drop(values[i], clocks) ELSE clocks)

drop_values(values, clocks) == drop_values_from(values, 1, <<>>, clocks)

\* ------------------------------------------------------------- call frames
\* RENodePointer::Store(node_id) / RENodePointer::Heap {frame_id, root, id}
StorePtr == [loc |-> "Store", frame |-> 0, root |-> NoNode]
HeapPtr(frame_id, root) == [loc |-> "Heap", frame |-> frame_id, root |-> root]

\* ExecutionState of ExecutionEntity::Method, or the function / root marker
Exec(kind, node, frame_id) == [kind |-> kind, node |-> node, frame_id |-> frame_id]

\* Amount of resource held by a root node and its children.
NodeTotal(rn) ==
    rn.root.amount
        + SumOver([c \in DOMAIN rn.child_nodes |-> rn.child_nodes[c].amount],
                  DOMAIN rn.child_nodes)

FrameTotal(f) == SumOver([id \in DOMAIN f.owned |-> NodeTotal(f.owned[id])], DOMAIN f.owned)

\* Amount held in all buckets, vaults and worktops of the frames and of Track.
Total(frames, nodes) ==
    SumOver([i \in DOMAIN frames |-> FrameTotal(frames[i])], DOMAIN frames)
        + SumOver([id \in DOMAIN nodes |-> nodes[id].amount], DOMAIN nodes)

CurrentFrame == call_frames[Len(call_frames)]

\* CallFrame::new_root: depth 0, nothing owned, nothing visible.
new_root ==
    [depth |-> 0, actor |-> "Native", exec |-> Exec("Root", NoNode, 0),
     owned |-> EmptyMap, node_refs |-> EmptyMap, auth_zone |-> <<>>,
     locked_values |-> {}, locks_before |-> [s \in SubstateIds |-> 0],
     total_before |-> 0, no_mint_burn |-> TRUE, authorized |-> TRUE,
     fn_ident |-> "none"]

\* CallFrame::new_child, with what the invoking call recorded for its return
\* (locked_values) and what the frame remembers of its invocation: the Track
\* locks and the total amount before it, whether a mint or burn happened
\* since, and the outcome of the authorization check made for it.
new_child(depth, actor, exec, owned, node_refs, locked_values, locks_before, total_before, authorized) ==
    [depth |-> depth, actor |-> actor, exec |-> exec,
     owned |-> owned, node_refs |-> node_refs, auth_zone |-> <<>>,
     locked_values |-> locked_values, locks_before |-> locks_before,
     total_before |-> total_before, no_mint_burn |-> TRUE, authorized |-> authorized,
     fn_ident |-> "call"]

ChildIdsOf(taken) == UNION {DOMAIN taken[id].child_nodes : id \in DOMAIN taken}

\* CallFrame::take_available_values(node_ids, persist_only): the possible
\* outcomes.  The ids are visited in the iteration order of a HashSet: each
\* owned id is removed from the frame and then verified, so a failing
\* verification leaves the frame without the ids visited before it.
take_available_values(frame, node_ids, persist_only, clocks) ==
    LET own == node_ids \cap DOMAIN frame.owned
        verdict(id) ==
            LET m == verify_can_move(frame.owned[id].root, clocks, id)
            IN IF m # "Ok" THEN m
               ELSE IF persist_only THEN verify_can_persist(frame.owned[id].root)
               ELSE "Ok"
        bad == {id \in own : verdict(id) # "Ok"}
        taken == Restrict(frame.owned, own)
    IN IF bad = {}
       THEN {[res |-> "Ok",
              owned |-> Without(frame.owned, own),
              node_refs |-> Without(frame.node_refs, own \cup ChildIdsOf(taken)),
              taken |-> taken,
              missing |-> node_ids \ own]}
       ELSE {[res |-> verdict(f),
              owned |-> Without(frame.owned, S \cup {f}),
              node_refs |-> frame.node_refs,
              taken |-> EmptyMap,
              missing |-> {}] : f \in bad, S \in SUBSET (own \ bad)}

process_call_data_kv_only(input) ==
    IF \E id \in input.node_ids : Kind(id) = "KeyValueStore" THEN "KeyValueStoreNotAllowed"
    ELSE "Ok"

\* Kernel::process_call_data
process_call_data(input) ==
    IF \E id \in input.node_ids : Kind(id) = "KeyValueStore" THEN "KeyValueStoreNotAllowed"
    ELSE IF \E id \in input.node_ids : Kind(id) = "Vault" THEN "VaultNotAllowed"
    ELSE "Ok"

\* Kernel::process_return_data
process_return_data(output) ==
    IF \E id \in output.node_ids : Kind(id) = "KeyValueStore" THEN "KeyValueStoreNotAllowed"
    ELSE "Ok"

change_to_restricted_skipped(taken) == taken

\* "Internal state update to taken values": every taken proof becomes restricted.
change_to_restricted(taken) ==
    [id \in DOMAIN taken |->
        IF taken[id].root.kind = "Proof"
        THEN [taken[id] EXCEPT !.root.restricted = TRUE]
        ELSE taken[id]]

\* ------------------------------------------------- invocation: state load
ResourceOf(node) == StoredResource          \* Bucket / Vault::resource_address
PackageOf(component) == StoredPackage       \* Component::package_address

Sid(offset, node_id) == <<offset, node_id>>

\* What the receiver match of invoke_method (and the actor match of
\* invoke_function) hands on: the result, the caller's owned nodes, the Track
\* locks, the locks to release on return, the references and nodes of the
\* next frame, its actor and execution state.
Loaded(res, owned, locks, locked_values, refs, next_owned, actor, exec) ==
    [res |-> res, owned |-> owned, locks |-> locks, locked_values |-> locked_values,
     refs |-> refs, next_owned |-> next_owned, actor |-> actor, exec |-> exec]

Failed(res, owned, locks) ==
    Loaded(res, owned, locks, {}, EmptyMap, EmptyMap, "Native", Exec("None", NoNode, 0))

\* "Lock Resource Managers in request": a read lock on every resource address
\* of the input, each recorded in locked_values and made visible as Store.
RECURSIVE lock_resource_managers(_, _, _, _, _)
lock_resource_managers(locks, substates, resources, not_found, reentrancy) ==
    IF resources = {} THEN [res |-> "Ok", locks |-> locks, locked_values |-> {}, refs |-> EmptyMap]
    ELSE LET r == CHOOSE x \in resources : TRUE
             sid == Sid("ResourceManager", r)
             a == acquire_lock_result(locks, substates, sid, FALSE)
         IN IF a = "NotFound"
            THEN [res |-> not_found, locks |-> locks, locked_values |-> {}, refs |-> EmptyMap]
            ELSE IF a = "Reentrancy"
            THEN [res |-> reentrancy, locks |-> locks, locked_values |-> {}, refs |-> EmptyMap]
            ELSE LET rest == lock_resource_managers(acquire_lock(locks, sid, FALSE), substates,
                                                    resources \ {r}, not_found, reentrancy)
                 IN [res |-> rest.res, locks |-> rest.locks,
                     locked_values |-> rest.locked_values \cup {<<sid, FALSE>>},
                     refs |-> (r :> StorePtr) @@ rest.refs]

\* The authorization of a method on a consumed node: AuthModule::consumed_auth(..)?
consumed_auth(authorized) == IF authorized THEN "Ok" ELSE "NotAuthorized"

ref_auth_skipped(authorized) == "Ok"

\* "Check method authorization": AuthModule::ref_auth(..)?
ref_auth(authorized) == IF authorized THEN "Ok" ELSE "NotAuthorized"

\* Receiver::Consumed(node_id): the node is removed from the caller's
\* owned_heap_nodes and becomes a node of the next frame.
receiver_consumed(frame, node_id, locks, substates, authorized) ==
    IF node_id \notin DOMAIN frame.owned
    THEN Failed("RENodeNotFound", frame.owned, locks)
    ELSE LET heap_node == frame.owned[node_id]
             owned == Without(frame.owned, {node_id})
             is_bucket == heap_node.root.kind = "Bucket"
             rm == ResourceOf(heap_node.root)
             sid == Sid("ResourceManager", rm)
             a == IF is_bucket THEN acquire_lock_result(locks, substates, sid, TRUE) ELSE "Ok"
             locks1 == IF is_bucket THEN acquire_lock(locks, sid, TRUE) ELSE locks
         IN IF a # "Ok" THEN Failed("Panic", owned, locks)
            ELSE IF consumed_auth(authorized) # "Ok"
            THEN Failed(consumed_auth(authorized), owned, locks1)
            ELSE Loaded("Ok", owned, locks1,
                        IF is_bucket THEN {<<sid, FALSE>>} ELSE {},
                        IF is_bucket THEN (rm :> StorePtr) ELSE EmptyMap,
                        (node_id :> heap_node),
                        "Native", Exec("Consumed", node_id, 0))

\* The pointer under which the current frame reaches node_id, or NoPtr.
NoPtr == [loc |-> "None", frame |-> 0, root |-> NoNode]

find_pointer(frame, node_id) ==
    IF node_id \in DOMAIN frame.owned THEN HeapPtr(frame.depth, node_id)
    ELSE IF node_id \in DOMAIN frame.node_refs THEN frame.node_refs[node_id]
    ELSE NoPtr

native_substate_id(node_id) ==
    IF Kind(node_id) = "Component" THEN Sid("ComponentInfo", node_id)
    ELSE Sid(Kind(node_id), node_id)

\* Receiver::NativeRENodeRef(node_id)
LockFeeIdents == {"lock_fee", "lock_contingent_fee"}

is_lock_fee_any_method(node_id, fn_ident) == Kind(node_id) = "Vault"

\* "Lock Substate": the lock of a vault under lock_fee is write-through.
is_lock_fee(node_id, fn_ident) == Kind(node_id) = "Vault" /\ fn_ident \in LockFeeIdents

\* Track: the vault was written in this transaction and the write is not in
\* the store (acquire_lock answers RENodeAlreadyTouched to a lock_fee).
already_touched(node_id) ==
    /\ node_id \in DOMAIN track_nodes
    /\ node_id \notin DOMAIN substate_store \/ track_nodes[node_id] # substate_store[node_id]

\* Track::release_lock with write_through: the value of the substate goes to the store.
release_write_through(store, nodes, locked_values) ==
    LET written == {lv[1][2] : lv \in {l \in locked_values : l[2]}}
    IN [id \in DOMAIN store \cup (written \cap DOMAIN nodes) |->
          IF id \in written /\ id \in DOMAIN nodes THEN nodes[id] ELSE store[id]]

receiver_native_ref(frame, node_id, fn_ident, input, locks, substates, authorized) ==
    IF Kind(node_id) \notin {"Bucket", "Proof", "ResourceManager", "Worktop", "Component", "Vault"}
    THEN Failed("MethodDoesNotExist", frame.owned, locks)
    ELSE
    LET found == find_pointer(frame, node_id)
        node_pointer == IF found = NoPtr /\ Kind(node_id) = "ResourceManager"
                        THEN StorePtr ELSE found
        sid == native_substate_id(node_id)
        lock_fee == is_lock_fee(node_id, fn_ident)
        in_store == node_pointer.loc = "Store"
        a == IF in_store THEN acquire_lock_result(locks, substates, sid, TRUE) ELSE "Ok"
        locks1 == IF in_store THEN acquire_lock(locks, sid, TRUE) ELSE locks
        locked1 == IF in_store THEN {<<sid, lock_fee>>} ELSE {}
        \* "Lock Additional Substates"
        extra == IF Kind(node_id) = "Component" THEN Sid("Package", PackageOf(node_id))
                 ELSE Sid("ResourceManager", ResourceOf(node_id))
        has_extra == Kind(node_id) \in {"Component", "Vault"}
        extra_mutable == Kind(node_id) = "Vault"
        b == IF has_extra THEN acquire_lock_result(locks1, substates, extra, extra_mutable)
             ELSE "Ok"
        locks2 == IF has_extra THEN acquire_lock(locks1, extra, extra_mutable) ELSE locks1
        locked2 == IF has_extra THEN locked1 \cup {<<extra, FALSE>>} ELSE locked1
        refs2 == IF has_extra THEN (extra[2] :> StorePtr) @@ (node_id :> node_pointer)
                 ELSE (node_id :> node_pointer)
        rms == lock_resource_managers(locks2, substates, input.resource_addresses,
                                      "RENodeNotFound", "Reentrancy")
    IN IF node_pointer = NoPtr THEN Failed("InvokeMethodInvalidReceiver", frame.owned, locks)
       ELSE IF a = "NotFound" THEN Failed("RENodeNotFound", frame.owned, locks)
       ELSE IF a = "Reentrancy" THEN Failed("Reentrancy", frame.owned, locks)
       ELSE IF in_store /\ lock_fee /\ already_touched(node_id)
       THEN Failed("LockFeeError", frame.owned, locks)
       ELSE IF ~in_store /\ lock_fee THEN Failed("LockFeeError", frame.owned, locks)
       ELSE IF b # "Ok"
       THEN Failed(IF Kind(node_id) = "Component" /\ b = "Reentrancy"
                   THEN "PackageReentrancy" ELSE "Panic", frame.owned, locks1)
       ELSE IF rms.res # "Ok" THEN Failed(rms.res, frame.owned, rms.locks)
       ELSE IF ref_auth(authorized) # "Ok"
       THEN Failed(ref_auth(authorized), frame.owned, rms.locks)
       ELSE Loaded("Ok", frame.owned, rms.locks, locked2 \cup rms.locked_values,
                   rms.refs @@ refs2, EmptyMap,
                   "Native", Exec("RENodeRef", node_id, 0))

receiver_auth_zone_of_child(frame, frame_id, input, locks, substates) ==
    LET rms == lock_resource_managers(locks, substates, input.resource_addresses,
                                      "ResourceManagerNotFound", "Panic")
    IN IF rms.res # "Ok" THEN Failed(rms.res, frame.owned, rms.locks)
       ELSE Loaded("Ok", frame.owned, rms.locks, rms.locked_values, rms.refs, EmptyMap,
                   "Native", Exec("AuthZone", NoNode, frame_id + 1))

\* Receiver::AuthZoneRef: the execution state names the caller's frame.
receiver_auth_zone(frame, frame_id, input, locks, substates) ==
    LET rms == lock_resource_managers(locks, substates, input.resource_addresses,
                                      "ResourceManagerNotFound", "Panic")
    IN IF rms.res # "Ok" THEN Failed(rms.res, frame.owned, rms.locks)
       ELSE Loaded("Ok", frame.owned, rms.locks, rms.locked_values, rms.refs, EmptyMap,
                   "Native", Exec("AuthZone", NoNode, frame_id))

component_locks_shared(component_address) ==
    << <<Sid("ComponentState", component_address), FALSE, TRUE>>,
       <<Sid("ComponentInfo", component_address), FALSE, FALSE>> >>

\* The locks Receiver::Component takes on a stored component before the
\* authorization check: <<substate, mutable, released on return>>.  The
\* ComponentInfo lock is released right after the check.
component_locks(component_address) ==
    << <<Sid("ComponentState", component_address), TRUE, TRUE>>,
       <<Sid("ComponentInfo", component_address), FALSE, FALSE>> >>

\* Receiver::Component(component_address)
receiver_component(frame, component_address, locks, substates, authorized) ==
    LET node_pointer == find_pointer(frame, component_address)
        in_store == node_pointer.loc = "Store"
        cl == component_locks(component_address)
        state == cl[1]
        info == cl[2]
        a == IF in_store THEN acquire_lock_result(locks, substates, state[1], state[2]) ELSE "Ok"
        locks1 == IF in_store THEN acquire_lock(locks, state[1], state[2]) ELSE locks
        b == IF in_store THEN acquire_lock_result(locks1, substates, info[1], info[2]) ELSE "Ok"
        locks2 == IF in_store THEN acquire_lock(locks1, info[1], info[2]) ELSE locks1
        package == Sid("Package", PackageOf(component_address))
        c == acquire_lock_result(locks2, substates, package, FALSE)
        locks3 == acquire_lock(locks2, package, FALSE)
        locks4 == IF in_store THEN release_lock(locks3, info[1]) ELSE locks3
    IN IF node_pointer = NoPtr THEN Failed("InvokeMethodInvalidReceiver", frame.owned, locks)
       ELSE IF a = "NotFound" THEN Failed("ComponentNotFound", frame.owned, locks)
       ELSE IF a = "Reentrancy" THEN Failed("ComponentReentrancy", frame.owned, locks)
       ELSE IF b # "Ok" THEN Failed("Panic", frame.owned, locks1)
       ELSE IF c # "Ok" THEN Failed("Panic", frame.owned, locks2)
       ELSE IF ref_auth(authorized) # "Ok"
       THEN Failed(ref_auth(authorized), frame.owned, locks3)
       ELSE Loaded("Ok", frame.owned, locks4,
                   (IF in_store THEN {<<state[1], FALSE>>} ELSE {}) \cup {<<package, FALSE>>},
                   (component_address :> node_pointer), EmptyMap,
                   "Scrypto", Exec("Component", component_address, 0))

\* ------------------------------------------------------------ fee reserve
CostingEntries ==
    {"InvokeFunction", "InvokeMethod", "Create", "Globalize", "Read", "Write", "Borrow",
     "run_function", "run_method"}

\* A fee table that charges nothing, and one that charges one unit per entry.
ZeroFeeTable == [e \in CostingEntries |-> 0]
UnitFeeTable == [e \in CostingEntries |-> 1]

\* FeeTable::system_api_cost, run_function_cost, run_method_cost
system_api_cost(table, entry) == table[entry]

\* FeeReserve::consume: the reserve pays the amount, or fails and keeps its balance.
consume(balance, amount) ==
    IF amount > balance THEN [res |-> "CostingError", balance |-> balance]
    ELSE [res |-> "Ok", balance |-> balance - amount]

invoke_costs_run_only(balance, table, api_entry, run_entry) ==
    consume(balance, system_api_cost(table, run_entry))

invoke_costs_unchecked(balance, table, api_entry, run_entry) ==
    [res |-> "Ok", balance |-> balance]

\* The two charges of an invocation: the system api cost, then the run cost.
invoke_costs(balance, table, api_entry, run_entry) ==
    LET api == consume(balance, system_api_cost(table, api_entry))
    IN IF api.res # "Ok" THEN api
       ELSE consume(api.balance, system_api_cost(table, run_entry))

\* ------------------------------------------------------------- invocation
Outcome(res, frames, locks) == [res |-> res, frames |-> frames, locks |-> locks]

WithTop(frames, frame) == [frames EXCEPT ![Len(frames)] = frame]

pass_argument_references_unchecked(frame, input) ==
    [res |-> "Ok",
     refs |-> [c \in input.refed_component_addresses |->
                 IF c \in DOMAIN frame.node_refs THEN frame.node_refs[c] ELSE StorePtr]]

\* "Pass argument references": every component address of the input must be
\* in the caller's node_refs; the callee gets the caller's pointer.
pass_argument_references(frame, input) ==
    IF input.refed_component_addresses \subseteq DOMAIN frame.node_refs
    THEN [res |-> "Ok", refs |-> Restrict(frame.node_refs, input.refed_component_addresses)]
    ELSE [res |-> "InvokeMethodInvalidReferencePass", refs |-> EmptyMap]

\* The depth test of invoke_method.
method_depth_reached(frames) == frames[Len(frames)].depth = MaxDepth

\* The depth test of invoke_function.
function_depth_reached(frames) == Len(frames) = MaxDepth

\* Kernel::invoke_method up to and including the push of the child frame,
\* for the outcome `taken` of take_available_values on the input's node ids.
invoke_method(frames, locks, substates, nodes, receiver, fn_ident, input, authorized, taken) ==
    LET frame0 == frames[Len(frames)]
        frame1 == [frame0 EXCEPT !.owned = taken.owned, !.node_refs = taken.node_refs]
        next_owned_values == change_to_restricted(taken.taken)
        loaded ==
            CASE receiver.kind = "Consumed" ->
                    receiver_consumed(frame1, receiver.node, locks, substates, authorized)
              [] receiver.kind = "NativeRENodeRef" ->
                    receiver_native_ref(frame1, receiver.node, fn_ident, input, locks,
                                        substates, authorized)
              [] receiver.kind = "AuthZoneRef" ->
                    receiver_auth_zone(frame1, Len(frames) - 1, input, locks, substates)
              [] OTHER ->
                    receiver_component(frame1, receiver.node, locks, substates, authorized)
        frame2 == [frame1 EXCEPT !.owned = loaded.owned]
        passed == pass_argument_references(frame2, input)
        child == [new_child(frame2.depth + 1, loaded.actor, loaded.exec,
                            loaded.next_owned @@ next_owned_values,
                            passed.refs @@ loaded.refs,
                            loaded.locked_values, locks, Total(frames, nodes), authorized)
                     EXCEPT !.fn_ident = fn_ident]
    IN IF method_depth_reached(frames)
       THEN Outcome("MaxCallDepthLimitReached", frames, locks)
       ELSE IF process_call_data(input) # "Ok"
       THEN Outcome(process_call_data(input), frames, locks)
       ELSE IF taken.res # "Ok"
       THEN Outcome(taken.res, WithTop(frames, frame1), locks)
       ELSE IF taken.missing # {}
       THEN Outcome("RENodeNotFound", WithTop(frames, frame1), locks)
       ELSE IF loaded.res # "Ok"
       THEN Outcome(loaded.res, WithTop(frames, frame2), loaded.locks)
       ELSE IF passed.res # "Ok"
       THEN Outcome(passed.res, WithTop(frames, frame2), loaded.locks)
       ELSE Outcome("Ok", Append(WithTop(frames, frame2), child), loaded.locks)

\* The actor match of invoke_function: a blueprint function read-locks its package.
function_actor(frame, type_name, fn_exists, locks, substates) ==
    IF type_name.kind = "Blueprint"
    THEN LET sid == Sid("Package", type_name.package)
             a == acquire_lock_result(locks, substates, sid, FALSE)
             locks1 == acquire_lock(locks, sid, FALSE)
         IN IF a = "NotFound" THEN Failed("PackageNotFound", frame.owned, locks)
            ELSE IF a = "Reentrancy" THEN Failed("Panic", frame.owned, locks)
            ELSE IF ~fn_exists THEN Failed("MethodDoesNotExist", frame.owned, locks1)
            ELSE Loaded("Ok", frame.owned, locks1, {<<sid, FALSE>>}, EmptyMap, EmptyMap,
                        "Scrypto", Exec("Function", NoNode, 0))
    ELSE Loaded("Ok", frame.owned, locks, {}, EmptyMap, EmptyMap,
                "Native", Exec("Function", NoNode, 0))

\* References of the next frame in invoke_function: from the root frame every
\* component address of the input becomes visible as a Store pointer.
function_references(frames, frame, input) ==
    IF Len(frames) = 1
    THEN [res |-> "Ok", refs |-> [c \in input.refed_component_addresses |-> StorePtr]]
    ELSE pass_argument_references(frame, input)

\* Kernel::invoke_function up to and including the push of the child frame.
invoke_function(frames, locks, substates, nodes, type_name, fn_exists, input, taken) ==
    LET frame0 == frames[Len(frames)]
        frame1 == [frame0 EXCEPT !.owned = taken.owned, !.node_refs = taken.node_refs]
        next_owned_values == change_to_restricted(taken.taken)
        loaded == function_actor(frame1, type_name, fn_exists, locks, substates)
        passed == function_references(frames, frame1, input)
        child == new_child(frame1.depth + 1, loaded.actor, loaded.exec,
                           next_owned_values, passed.refs,
                           loaded.locked_values, locks, Total(frames, nodes), TRUE)
    IN IF function_depth_reached(frames)
       THEN Outcome("MaxCallDepthLimitReached", frames, locks)
       ELSE IF process_call_data(input) # "Ok"
       THEN Outcome(process_call_data(input), frames, locks)
       ELSE IF taken.res # "Ok"
       THEN Outcome(taken.res, WithTop(frames, frame1), locks)
       ELSE IF taken.missing # {}
       THEN Outcome("RENodeNotFound", WithTop(frames, frame1), locks)
       ELSE IF loaded.res # "Ok"
       THEN Outcome(loaded.res, WithTop(frames, frame1), loaded.locks)
       ELSE IF passed.res # "Ok"
       THEN Outcome(passed.res, WithTop(frames, frame1), loaded.locks)
       ELSE Outcome("Ok", Append(WithTop(frames, frame1), child), loaded.locks)

\* ----------------------------------------------------------------- return
RECURSIVE auth_zone_clear(_, _, _)
\* AuthZone::clear drops every proof of the zone.
auth_zone_clear(auth_zone, i, clocks) ==
    IF i > Len(auth_zone) THEN clocks
    ELSE auth_zone_clear(auth_zone, i + 1, proof_drop(auth_zone[i], clocks))

\* "Check we have valid references to pass back": only Store pointers.
return_references_ok_any_pointer(frame, output) ==
    output.refed_component_addresses \subseteq DOMAIN frame.node_refs

\* "Check we have valid references to pass back": only Store pointers.
return_references_ok(frame, output) ==
    \A c \in output.refed_component_addresses :
        c \in DOMAIN frame.node_refs /\ frame.node_refs[c].loc = "Store"

accept_references_only(node_refs, output) ==
    [c \in output.refed_component_addresses |-> StorePtr]

\* "Accept component references"
accept_references(node_refs, output) ==
    [c \in output.refed_component_addresses |-> StorePtr] @@ node_refs

receive_values_lost(owned, received_values) == owned

\* "move buckets and proofs to this process": owned_heap_nodes.insert(id, value)
receive_values(owned, received_values) == received_values @@ owned

release_locked_values_skipped(locks, locked_values) == locks

\* "Release locked addresses" after the child frame was popped.
release_locked_values(locks, locked_values) == release_all(locks, locked_values)

first_missing_value_ignored(missing) == "Ok"

\* "Take values to return": a value the frame does not own fails the return.
first_missing_value(missing) == IF missing # {} THEN "RENodeNotFound" ELSE "Ok"

\* The end of Kernel::run (from "Process return data") for the callee's
\* output, followed by what invoke_function / invoke_method do after run
\* returned Ok.  `taken` is the outcome of take_available_values on the
\* output's node ids, `order` the order in which drop_owned_values drains
\* the frame.
run_return(frames, locks, clocks, output, taken, order) ==
    LET n == Len(frames)
        frame0 == frames[n]
        frame1 == [frame0 EXCEPT !.owned = taken.owned, !.node_refs = taken.node_refs]
        clocks1 == auth_zone_clear(frame1.auth_zone, 1, clocks)
        frame2 == [frame1 EXCEPT !.auth_zone = <<>>]
        dropped == drop_values([i \in 1..Len(order) |-> frame2.owned[order[i]].root], clocks1)
        frame3 == [frame2 EXCEPT !.owned = EmptyMap]
        caller == frames[n - 1]
        caller1 == [caller EXCEPT
                        !.owned = receive_values(@, taken.taken),
                        !.node_refs = accept_references(@, output)]
        popped == [SubSeq(frames, 1, n - 1) EXCEPT ![n - 1] = caller1]
    IN IF process_return_data(output) # "Ok"
       THEN [res |-> process_return_data(output), frames |-> frames,
             locks |-> locks, clocks |-> clocks]
       ELSE IF taken.res # "Ok"
       THEN [res |-> taken.res, frames |-> WithTop(frames, frame1),
             locks |-> locks, clocks |-> clocks]
       ELSE IF first_missing_value(taken.missing) # "Ok"
       THEN [res |-> first_missing_value(taken.missing), frames |-> WithTop(frames, frame1),
             locks |-> locks, clocks |-> clocks]
       ELSE IF ~return_references_ok(frame1, output)
       THEN [res |-> "InvokeMethodInvalidReferencePass", frames |-> WithTop(frames, frame1),
             locks |-> locks, clocks |-> clocks]
       ELSE IF dropped.res # "Ok"
       THEN [res |-> dropped.res, frames |-> WithTop(frames, frame3),
             locks |-> locks, clocks |-> dropped.clocks]
       ELSE [res |-> "Ok", frames |-> popped,
             locks |-> release_locked_values(locks, frame0.locked_values),
             clocks |-> dropped.clocks]

\* All orders in which a HashMap with the keys S can be drained.
Orders(S) == {o \in [1..Cardinality(S) -> S] : \A i, j \in DOMAIN o : i # j => o[i] # o[j]}

\* ------------------------------------------------------------------ inputs
\* Node ids a payload built by the current frame may name: nodes the frame
\* owns and one id it does not own.
MissingIds(frame) ==
    LET free == (BucketIds \cup ProofIds) \ DOMAIN frame.owned
    IN IF free = {} THEN {} ELSE {CHOOSE id \in free : TRUE}

NodeIdChoices(frame) ==
    {S \in SUBSET ((DOMAIN frame.owned \cap PayloadIds) \cup MissingIds(frame)) :
        Cardinality(S) <= MaxArgs}

NoPayload == [node_ids |-> {}, refed_component_addresses |-> {}, resource_addresses |-> {}]

\* ScryptoValue: the node ids, component addresses and resource addresses it
\* names.  Payloads that move nodes ...
NodePayloads(frame) ==
    {[NoPayload EXCEPT !.node_ids = S] : S \in NodeIdChoices(frame)}

\* ... and payloads that name at most one global address.
AddressPayloads(frame) ==
    {NoPayload}
        \cup {[NoPayload EXCEPT !.refed_component_addresses = {c}] : c \in ComponentIds}
        \cup {[NoPayload EXCEPT !.resource_addresses = {r}] : r \in ResourceIds}

\* Receivers of a method call on the nodes the frame owns or sees ...
NodeReceivers(frame) ==
    [kind : {"Consumed", "NativeRENodeRef"},
     node : DOMAIN frame.owned \cup DOMAIN frame.node_refs \cup MissingIds(frame)]
        \cup [kind : {"Component"}, node : DOMAIN frame.node_refs \cap ComponentIds]
        \cup [kind : {"AuthZoneRef"}, node : {NoNode}]

\* ... and on global addresses.
AddressReceivers(frame) ==
    [kind : {"Component"}, node : ComponentIds]
        \cup [kind : {"NativeRENodeRef"}, node : {StoredResource, StoredComponent}]

\* Vault::lock_fee is the one method whose lock is write-through.
FnIdents(receiver) ==
    IF receiver.kind = "NativeRENodeRef" /\ Kind(receiver.node) = "Vault"
    THEN {"call", "lock_fee"} ELSE {"call"}

\* What the authorization check of the receiver can answer; AuthZoneRef has none.
AuthOutcomes(receiver) ==
    IF receiver.kind = "AuthZoneRef" THEN {TRUE} ELSE BOOLEAN

NativeTypes == [kind : {"Native"}, package : {NoNode}]
BlueprintTypes == [kind : {"Blueprint"}, package : PackageIds]

\* Receivers and payloads of calls that hand component references down and up.
ReferenceReceivers(frame) ==
    [kind : {"Component"}, node : ComponentIds] \cup [kind : {"AuthZoneRef"}, node : {NoNode}]

ReferencePayloads(frame) ==
    {NoPayload}
        \cup {[NoPayload EXCEPT !.refed_component_addresses = {c}] : c \in ComponentIds}

\* Receivers and payloads of calls that reach the vault of the component on
\* ledger: native methods on the nodes the frame owns or sees.
FeeReceivers(frame) ==
    [kind : {"NativeRENodeRef"}, node : DOMAIN frame.owned \cup DOMAIN frame.node_refs]

FeePayloads(frame) ==
    {[NoPayload EXCEPT !.node_ids = S] :
        S \in {T \in NodeIdChoices(frame) : Cardinality(T) <= 1}}
        \cup {[NoPayload EXCEPT !.refed_component_addresses = {StoredComponent}]}

\* Payloads naming up to MaxArgs nodes, owned by the frame or not.
RunPayloads(frame) ==
    {[NoPayload EXCEPT !.node_ids = S] :
        S \in {T \in SUBSET (BucketIds \cup ProofIds) : Cardinality(T) <= MaxArgs}}

StorePayloads(frame) ==
    {NoPayload, [NoPayload EXCEPT !.refed_component_addresses = {StoredComponent}]}
        \cup {[NoPayload EXCEPT !.node_ids = {id}] :
                 id \in {b \in DOMAIN frame.owned : Kind(b) = "Bucket"}}

\* The inputs of a transaction that creates nodes and moves them between
\* frames ("nodes"), of one that calls functions and methods on global
\* addresses ("addresses"), and of one that passes component references
\* through nested calls ("references"), and of those that lock a fee ("fees",
\* and "store" with the buckets taken from a vault as the only nodes moved).
\* Receivers of calls that run methods of the component on ledger and of the
\* nodes the frame sees.
ReadReceivers(frame) ==
    [kind : {"Component"}, node : {StoredComponent}] \cup FeeReceivers(frame)

Receivers(scope, frame) ==
    CASE scope = "nodes" -> NodeReceivers(frame)
      [] scope = "reads" -> ReadReceivers(frame)
      [] scope = "addresses" -> AddressReceivers(frame)
      [] scope \in {"fees", "store", "runs"} -> FeeReceivers(frame)
      [] OTHER -> ReferenceReceivers(frame)

Payloads(scope, frame) ==
    CASE scope = "nodes" -> NodePayloads(frame)
      [] scope = "addresses" -> AddressPayloads(frame)
      [] scope = "fees" -> FeePayloads(frame)
      [] scope \in {"store", "reads"} -> StorePayloads(frame)
      [] scope = "runs" -> RunPayloads(frame)
      [] OTHER -> ReferencePayloads(frame)

TypeNames(scope) ==
    IF scope = "addresses" THEN NativeTypes \cup BlueprintTypes ELSE NativeTypes

\* The frames the explored stacks hold: no deeper frame is pushed.
FrameCap(scope) == IF scope = "references" THEN MaxFrames + 1 ELSE MaxFrames

\* The node kinds a frame creates.
CreatedKinds(scope) ==
    IF scope = "nodes"
    THEN {"Bucket", "Vault", "KeyValueStore", "Component", "Worktop", "Package",
          "ResourceManager"}
    ELSE IF scope = "fees" THEN {"Bucket", "Vault", "Component"}
    ELSE IF scope = "store" THEN {"Vault", "Component"}
    ELSE IF scope = "runs" THEN {"Bucket", "Component"}
    ELSE {"Component"}

\* The payload names a restricted proof / a locked bucket of the frame.
HasRestrictedProof(frame, input) ==
    \E id \in input.node_ids \cap DOMAIN frame.owned :
        verify_can_move(frame.owned[id].root, container_locks, id) = "CantMoveRestrictedProof"

HasLockedBucket(frame, input) ==
    \E id \in input.node_ids \cap DOMAIN frame.owned :
        verify_can_move(frame.owned[id].root, container_locks, id) = "CantMoveLockedBucket"

\* What is remembered of a kernel call that returned an error.
FailedCall(op, receiver, frame, input, authorized) ==
    [op |-> op, receiver |-> receiver, input |-> input, authorized |-> authorized,
     frames_before |-> call_frames,
     restricted_arg |-> HasRestrictedProof(frame, input),
     locked_arg |-> HasLockedBucket(frame, input),
     payload_ok |-> process_call_data(input) = "Ok",
     locks_before |-> track_locks, reserve_before |-> fee_reserve,
     reported |-> NoNode, replayed |-> NoNode]

\* `missing.drain().nth(0)`: the first id in the iteration order of the
\* HashSet, which is any of its ids; the node ids the error of a call that
\* ended in `res` can name.
first_missing_ids(res, missing) ==
    IF res = "RENodeNotFound" /\ missing # {} THEN missing
    ELSE {NoNode}

\* The failed call with the node id its error names, and the id the error of
\* a second run of the call from the same state names.
Reporting(call, reported, replayed) ==
    [call EXCEPT !.reported = reported, !.replayed = replayed]

\* What is remembered of an invocation that returned Ok: what its frame
\* remembered, the amount it returned and the nodes dropped with the frame.
CompletedCall(frame, output, taken) ==
    [op |-> "return", output |-> output, locks_before |-> frame.locks_before,
     locked_values |-> frame.locked_values,
     total_before |-> frame.total_before, no_mint_burn |-> frame.no_mint_burn,
     returned |-> FrameTotal([owned |-> taken.taken]),
     dropped |-> {taken.owned[id].root : id \in DOMAIN taken.owned}]

NoReceiver == [kind |-> "None", node |-> NoNode]

\* The node id a node_drop / node_globalize / borrow names, as remembered of the call.
NodeArg(node_id) == [kind |-> "Node", node |-> node_id]

\* What is remembered of an invocation whose child frame the last step pushed.
StartedCall(op, receiver, input) == [op |-> op, receiver |-> receiver, input |-> input]

MarkMintBurn(frames) == [i \in DOMAIN frames |-> [frames[i] EXCEPT !.no_mint_burn = FALSE]]

\* ----------------------------------------------------------------- actions
\* Kernel::new with the fee table and the fee reserve it is given.
KernelFields(table, reserve) ==
    /\ fee_table = table
    /\ fee_reserve = reserve
    /\ call_frames = <<new_root>>
    /\ id_allocator = [k \in {"Bucket", "Proof", "Vault", "KeyValueStore", "Component",
                              "Package", "ResourceManager", "Created"} |-> 0]
    /\ container_locks = [b \in BucketIds |-> 0]
    /\ track_locks = [s \in SubstateIds |-> 0]
    /\ track_substates = {Sid("ComponentInfo", StoredComponent),
                          Sid("ComponentState", StoredComponent),
                          Sid("Package", StoredPackage),
                          Sid("ResourceManager", StoredResource),
                          Sid("Vault", StoredVault)}
    /\ track_nodes = (StoredVault :> Node("Vault", 1, FALSE, NoNode))
    /\ substate_store = (StoredVault :> Node("Vault", 1, FALSE, NoNode))
    /\ err = "none"
    /\ failed_call = NoCall
    /\ completed_call = NoCall

\* Heap::new
HeapNew ==
    /\ heap = EmptyMap
    /\ heap_call = NoCall

\* No SubstateIdGenerator was made, no value converted.
NoGenerator ==
    /\ id_generators = <<>>
    /\ generator_calls = <<>>

NoConversion == conversion = NoCall

\* No move to the store in progress, no key-value store and no parser in use.
NoMove == move_stack = <<>>
NoKvStore == kv_store = NoCall
NoParser == parser = NoCall
NoDrop == drop_call = NoCall

KernelNew(table, reserve) ==
    /\ KernelFields(table, reserve)
    /\ HeapNew
    /\ NoGenerator
    /\ NoConversion
    /\ NoMove
    /\ NoKvStore
    /\ NoParser
    /\ NoDrop

\* A transaction whose calls cost nothing ...
Init == KernelNew(ZeroFeeTable, 0)

\* ... and one whose reserve pays one unit per charge.
FeeInit == KernelNew(UnitFeeTable, MaxFee)

\* The reserve of a transaction that takes from a vault before it locks a fee.
MaxStoreFee == MaxFee + 3
StoreInit == KernelNew(UnitFeeTable, MaxStoreFee)

Fail(e, call) ==
    /\ err' = e
    /\ failed_call' = call
    /\ completed_call' = NoCall

\* The invocation pushed its child frame, or the write was made.
Started(call) ==
    /\ UNCHANGED <<err, failed_call>>
    /\ completed_call' = call

\* The kernel call returned Ok.
Done ==
    /\ UNCHANGED <<err, failed_call>>
    /\ completed_call' = NoCall

\* Kernel::invoke_method: state load, authorization and the push of the child frame.
InvokeMethod(scope) ==
    /\ err = "none"
    /\ UNCHANGED lib_vars
    /\ \E input \in Payloads(scope, CurrentFrame), receiver \in Receivers(scope, CurrentFrame) :
          \E fn_ident \in FnIdents(receiver), authorized \in AuthOutcomes(receiver),
             taken \in take_available_values(CurrentFrame, input.node_ids, FALSE,
                                             container_locks) :
            \E out \in {invoke_method(call_frames, track_locks, track_substates, track_nodes,
                                      receiver, fn_ident, input, authorized, taken)},
               paid \in {invoke_costs(fee_reserve, fee_table, "InvokeMethod", "run_method")} :
            \E reported \in first_missing_ids(out.res, taken.missing),
               replayed \in first_missing_ids(out.res, taken.missing) :
            LET call == Reporting(FailedCall("invoke_method", receiver, CurrentFrame, input,
                                             authorized), reported, replayed)
            IN /\ (paid.res = "Ok" /\ out.res = "Ok") => Len(call_frames) < FrameCap(scope)
               /\ IF out.res = "MaxCallDepthLimitReached"
                  THEN /\ Fail(out.res, call)
                       /\ UNCHANGED <<call_frames, track_locks, fee_reserve>>
                  ELSE IF paid.res # "Ok"
                  THEN /\ Fail(paid.res, call)
                       /\ fee_reserve' = paid.balance
                       /\ UNCHANGED <<call_frames, track_locks>>
                  ELSE /\ fee_reserve' = paid.balance
                       /\ call_frames' = out.frames
                       /\ track_locks' = out.locks
                       /\ IF out.res = "Ok"
                          THEN Started(StartedCall("invoke_method", receiver, input))
                          ELSE Fail(out.res, call)
    /\ UNCHANGED <<id_allocator, container_locks, track_substates, track_nodes, fee_table, substate_store>>

\* Kernel::invoke_function: state load and the push of the child frame.
InvokeFunction(scope) ==
    /\ err = "none"
    /\ UNCHANGED lib_vars
    /\ \E input \in Payloads(scope, CurrentFrame),
          type_name \in TypeNames(scope), fn_exists \in BOOLEAN :
          \E taken \in take_available_values(CurrentFrame, input.node_ids, FALSE,
                                             container_locks) :
            \E out \in {invoke_function(call_frames, track_locks, track_substates,
                                        track_nodes, type_name, fn_exists, input, taken)},
               paid \in {invoke_costs(fee_reserve, fee_table, "InvokeFunction", "run_function")} :
            \E reported \in first_missing_ids(out.res, taken.missing),
               replayed \in first_missing_ids(out.res, taken.missing) :
            LET call == Reporting(FailedCall("invoke_function", NoReceiver, CurrentFrame, input,
                                             TRUE), reported, replayed)
                            @@ [type_name |-> type_name, fn_exists |-> fn_exists]
            IN /\ (paid.res = "Ok" /\ out.res = "Ok") => Len(call_frames) < FrameCap(scope)
               /\ IF out.res = "MaxCallDepthLimitReached"
                  THEN /\ Fail(out.res, call)
                       /\ UNCHANGED <<call_frames, track_locks, fee_reserve>>
                  ELSE IF paid.res # "Ok"
                  THEN /\ Fail(paid.res, call)
                       /\ fee_reserve' = paid.balance
                       /\ UNCHANGED <<call_frames, track_locks>>
                  ELSE /\ fee_reserve' = paid.balance
                       /\ call_frames' = out.frames
                       /\ track_locks' = out.locks
                       /\ IF out.res = "Ok"
                          THEN Started(StartedCall("invoke_function", NoReceiver, input))
                          ELSE Fail(out.res, call)
    /\ UNCHANGED <<id_allocator, container_locks, track_substates, track_nodes, fee_table, substate_store>>

\* The callee of the top frame returns Ok(output): the end of Kernel::run and
\* the rest of the invoke_function / invoke_method that pushed the frame.
Return(scope) ==
    /\ err = "none"
    /\ UNCHANGED lib_vars
    /\ Len(call_frames) > 1
    /\ \E output \in Payloads(scope, CurrentFrame) :
          \E taken \in take_available_values(CurrentFrame, output.node_ids, FALSE,
                                             container_locks) :
            \E order \in Orders(DOMAIN taken.owned) :
              \E out \in {run_return(call_frames, track_locks, container_locks, output,
                                     taken, order)} :
                 /\ call_frames' = out.frames
                 /\ track_locks' = out.locks
                 /\ container_locks' = out.clocks
                 /\ IF out.res = "Ok"
                    THEN /\ UNCHANGED <<err, failed_call>>
                         /\ completed_call' = CompletedCall(CurrentFrame, output, taken)
                         /\ substate_store' =
                               release_write_through(substate_store, track_nodes,
                                                     CurrentFrame.locked_values)
                    ELSE /\ \E reported \in first_missing_ids(out.res, taken.missing),
                               replayed \in first_missing_ids(out.res, taken.missing) :
                              Fail(out.res,
                                   Reporting(FailedCall("return", NoReceiver, CurrentFrame,
                                                        output, TRUE), reported, replayed))
                         /\ UNCHANGED substate_store
    /\ UNCHANGED <<id_allocator, track_substates, track_nodes, fee_reserve, fee_table>>

\* The callee of the top frame returns an error: run, and the invocation that
\* called it, hand the error on with `?`.
CalleeError ==
    /\ err = "none"
    /\ UNCHANGED lib_vars
    /\ Len(call_frames) > 1
    /\ Fail("InvokeError",
            [FailedCall("callee", NoReceiver, CurrentFrame, NoPayload, TRUE)
                EXCEPT !.locks_before = CurrentFrame.locks_before])
    /\ UNCHANGED <<call_frames, id_allocator, container_locks, track_locks,
                   track_substates, track_nodes, fee_reserve, fee_table, substate_store>>

\* `fee_reserve.consume(cost, ..).map_err(RuntimeError::CostingError)?` at the
\* head of a call: the reserve cannot pay and the call fails ...
CostingFailure(entry, op) ==
    /\ consume(fee_reserve, system_api_cost(fee_table, entry)).res # "Ok"
    /\ Fail("CostingError", FailedCall(op, NoReceiver, CurrentFrame, NoPayload, TRUE))
    /\ UNCHANGED <<call_frames, id_allocator, container_locks, track_locks,
                   track_substates, track_nodes, fee_reserve, fee_table, substate_store>>

\* ... or it pays and the call goes on.
Charge(entry) ==
    /\ consume(fee_reserve, system_api_cost(fee_table, entry)).res = "Ok"
    /\ fee_reserve' = consume(fee_reserve, system_api_cost(fee_table, entry)).balance
    /\ UNCHANGED <<fee_table, substate_store>>

\* RootNode::to_nodes: a taken root and its children, as children of a new parent.
to_nodes(taken) ==
    LET ids == DOMAIN taken \cup ChildIdsOf(taken)
    IN [id \in ids |->
          IF id \in DOMAIN taken THEN taken[id].root
          ELSE LET p == CHOOSE r \in DOMAIN taken : id \in DOMAIN taken[r].child_nodes
               IN taken[p].child_nodes[id]]

\* Kernel::new_node_id: the id of a new node of the given kind.
new_node_id(allocator, kind) ==
    IF kind = "Worktop" THEN WorktopId ELSE <<kind, allocator[kind] + 1>>

IdsLeft(kind) ==
    /\ id_allocator["Created"] < MaxNodes
    /\ CASE kind = "Worktop" -> TRUE
         [] kind = "Bucket" -> id_allocator[kind] < MaxBuckets
         [] kind = "Proof" -> id_allocator[kind] < MaxProofs
         [] OTHER -> id_allocator[kind] < MaxContainers

\* The allocator after it issued an id of the given kind.
Allocated(allocator, kind) ==
    IF kind = "Worktop" THEN [allocator EXCEPT !["Created"] = @ + 1]
    ELSE [allocator EXCEPT ![kind] = @ + 1, !["Created"] = @ + 1]

\* The references node_create adds to the frame for the new node.
created_node_refs(frame, node_id) ==
    IF Kind(node_id) \in {"KeyValueStore", "ResourceManager", "Component"}
    THEN (node_id :> HeapPtr(frame.depth, node_id)) @@ frame.node_refs
    ELSE frame.node_refs

\* Kernel::node_create for a node `re_node` naming the child nodes `children`.
node_create(frame, allocator, re_node, taken) ==
    LET frame1 == [frame EXCEPT !.owned = taken.owned, !.node_refs = taken.node_refs]
        node_id == new_node_id(allocator, re_node.kind)
        heap_root_node == RootNode(re_node, to_nodes(taken.taken))
        frame2 == [frame1 EXCEPT !.owned = (node_id :> heap_root_node) @@ @,
                                 !.node_refs = created_node_refs(frame1, node_id)]
    IN IF taken.res # "Ok" THEN [res |-> taken.res, frame |-> frame1, id |-> NoNode]
       ELSE IF taken.missing # {}
       THEN [res |-> "RENodeCreateNodeNotFound", frame |-> frame1, id |-> NoNode]
       ELSE [res |-> "Ok", frame |-> frame2, id |-> node_id]

ChildChoices(frame, kind) ==
    IF kind = "Component" THEN NodeIdChoices(frame) ELSE {{}}

NodeCreate(scope) ==
    /\ err = "none"
    /\ UNCHANGED lib_vars
    /\ \/ CostingFailure("Create", "node_create")
       \/ /\ Charge("Create")
          /\ \E kind \in CreatedKinds(scope) :
               /\ IdsLeft(kind)
               /\ \E amount \in (IF kind \in {"Bucket", "Worktop"} THEN 0..MaxAmount ELSE {0}),
                     children \in ChildChoices(CurrentFrame, kind) :
                    \E taken \in take_available_values(CurrentFrame, children, TRUE, container_locks) :
                      LET out == node_create(CurrentFrame, id_allocator,
                                             Node(kind, amount, FALSE, NoNode), taken)
                          frames == WithTop(call_frames, out.frame)
                          replaced == out.id \in DOMAIN CurrentFrame.owned
                      IN /\ call_frames' = IF amount > 0 \/ replaced THEN MarkMintBurn(frames)
                                           ELSE frames
                         /\ IF out.res = "Ok"
                            THEN /\ id_allocator' = Allocated(id_allocator, kind)
                                 /\ Done
                            ELSE /\ Fail(out.res,
                                         FailedCall("node_create", NoReceiver, CurrentFrame,
                                                    [NoPayload EXCEPT !.node_ids = children],
                                                    TRUE))
                                 /\ UNCHANGED id_allocator
          /\ UNCHANGED <<container_locks, track_locks, track_substates, track_nodes>>

\* Bucket::create_proof, run by the callee of a native bucket method: the
\* bucket's container is locked and the proof node is created in the callee.
BucketCreateProof ==
    /\ err = "none"
    /\ UNCHANGED lib_vars
    /\ CurrentFrame.exec.kind = "RENodeRef"
    /\ Kind(CurrentFrame.exec.node) = "Bucket"
    /\ IdsLeft("Proof")
    /\ \/ CostingFailure("Create", "node_create")
       \/ /\ Charge("Create")
          /\ LET bucket_id == CurrentFrame.exec.node
                 out == node_create(CurrentFrame, id_allocator,
                                    Node("Proof", 0, FALSE, bucket_id),
                                    CHOOSE t \in take_available_values(CurrentFrame, {}, TRUE,
                                                                       container_locks) : TRUE)
             IN /\ call_frames' = WithTop(call_frames, out.frame)
                /\ container_locks' = [container_locks EXCEPT ![bucket_id] = @ + 1]
                /\ id_allocator' = Allocated(id_allocator, "Proof")
          /\ UNCHANGED <<track_locks, track_substates, track_nodes>>
          /\ Done

\* Kernel::node_drop: the node leaves the frame and is handed to the native
\* caller; a proof handed out this way is dropped by it.
node_drop(frame, node_id) == [frame EXCEPT !.owned = Without(@, {node_id})]

NodeDrop ==
    /\ err = "none"
    /\ UNCHANGED lib_vars
    /\ \E node_id \in DOMAIN CurrentFrame.owned \cup MissingIds(CurrentFrame) :
         IF node_id \in DOMAIN CurrentFrame.owned
         THEN LET rn == CurrentFrame.owned[node_id]
                  frames == WithTop(call_frames, node_drop(CurrentFrame, node_id))
              IN /\ call_frames' = IF NodeTotal(rn) > 0 THEN MarkMintBurn(frames) ELSE frames
                 /\ container_locks' = IF rn.root.kind = "Proof"
                                       THEN proof_drop(rn.root, container_locks)
                                       ELSE container_locks
                 /\ Done
         ELSE /\ Fail("Panic", FailedCall("node_drop", NodeArg(node_id), CurrentFrame,
                                          NoPayload, TRUE))
              /\ UNCHANGED <<call_frames, container_locks>>
    /\ UNCHANGED <<id_allocator, track_locks, track_substates, track_nodes, fee_reserve,
                   fee_table, substate_store>>

\* Kernel::borrow_node, called by native code: the pointer of the node is
\* looked up in the node_refs of the frame.
BorrowNode ==
    /\ err = "none"
    /\ UNCHANGED lib_vars
    /\ \/ CostingFailure("Borrow", "borrow_node")
       \/ /\ Charge("Borrow")
          /\ \E node_id \in DOMAIN CurrentFrame.owned \cup DOMAIN CurrentFrame.node_refs
                                \cup MissingIds(CurrentFrame) :
               IF node_id \in DOMAIN CurrentFrame.node_refs
               THEN Started(StartedCall("borrow_node", NodeArg(node_id), NoPayload))
               ELSE \* .expect("{:?} is unknown.")
                    Fail("Panic", FailedCall("borrow_node", NodeArg(node_id), CurrentFrame,
                                             NoPayload, TRUE))
          /\ UNCHANGED <<call_frames, id_allocator, container_locks, track_locks,
                         track_substates, track_nodes>>

\* AuthZone::main "push", run by the callee of an AuthZoneRef method: the
\* proof received as argument is dropped from the callee frame and pushed on
\* the auth zone of the frame named by the execution state.
AuthZonePush ==
    /\ err = "none"
    /\ UNCHANGED lib_vars
    /\ CurrentFrame.exec.kind = "AuthZone"
    /\ \E proof_id \in DOMAIN CurrentFrame.owned :
         /\ Kind(proof_id) = "Proof"
         /\ LET proof == CurrentFrame.owned[proof_id].root
                frames == WithTop(call_frames, node_drop(CurrentFrame, proof_id))
            IN call_frames' = [frames EXCEPT ![CurrentFrame.exec.frame_id + 1].auth_zone =
                                                 Append(@, proof)]
    /\ UNCHANGED <<id_allocator, container_locks, track_locks, track_substates,
                   track_nodes, fee_reserve, fee_table, substate_store>>
    /\ Done

\* RENodeProperties::can_globalize
can_globalize_any(node_id) == TRUE

can_globalize(node_id) ==
    Kind(node_id) \in {"Component", "ResourceManager", "Package", "System"}

\* The substates under which a node is kept in Track.
SubstatesOf(node_id) ==
    CASE Kind(node_id) = "Component" ->
            {Sid("ComponentInfo", node_id), Sid("ComponentState", node_id)}
      [] Kind(node_id) \in {"Package", "ResourceManager", "Vault"} ->
            {Sid(Kind(node_id), node_id)}
      [] OTHER -> {}

\* Kernel::node_globalize
NodeGlobalize ==
    /\ err = "none"
    /\ UNCHANGED lib_vars
    /\ \/ CostingFailure("Globalize", "node_globalize")
       \/ /\ Charge("Globalize")
          /\ \E node_id \in DOMAIN CurrentFrame.owned \cup MissingIds(CurrentFrame)
                                \cup {StoredComponent} :
               IF ~can_globalize(node_id)
               THEN /\ Fail("RENodeGlobalizeTypeNotAllowed",
                            FailedCall("node_globalize", NodeArg(node_id), CurrentFrame,
                                       NoPayload, TRUE))
                    /\ UNCHANGED <<call_frames, track_substates, track_nodes>>
               ELSE IF node_id \notin DOMAIN CurrentFrame.owned
               THEN \* assert!(missing_nodes.is_empty())
                    /\ Fail("Panic", FailedCall("node_globalize", NodeArg(node_id), CurrentFrame,
                                                NoPayload, TRUE))
                    /\ UNCHANGED <<call_frames, track_substates, track_nodes>>
               ELSE \E taken \in take_available_values(CurrentFrame, {node_id}, FALSE,
                                                       container_locks) :
                      LET root_node == taken.taken[node_id]
                          stored == (node_id :> root_node.root) @@ root_node.child_nodes
                      IN /\ taken.res = "Ok" /\ taken.missing = {}
                         /\ call_frames' =
                              WithTop(call_frames,
                                      [CurrentFrame EXCEPT
                                          !.owned = taken.owned,
                                          !.node_refs = (node_id :> StorePtr) @@ taken.node_refs])
                         /\ track_substates' =
                              track_substates \cup UNION {SubstatesOf(id) : id \in DOMAIN stored}
                         /\ track_nodes' = stored @@ track_nodes
                         /\ Done
          /\ UNCHANGED <<id_allocator, container_locks, track_locks>>

\* REActor::is_substate_writeable for a ComponentState substate
is_substate_writeable(frame, component_address) ==
    \/ frame.actor = "Native"
    \/ frame.exec.kind = "Component" /\ frame.exec.node = component_address

\* SubstateProperties::can_own_nodes, by the offset of the substate.
can_own_nodes_any(offset) == TRUE

can_own_nodes(offset) == offset \in {"Global", "KeyValueStoreEntry", "ComponentState"}

\* The substates of a component a frame writes.
WrittenOffsets == {"ComponentState", "ComponentInfo"}

\* REActor::is_substate_writeable: the info substate of a component is
\* written by native code only.
is_offset_writeable(frame, offset, component_address) ==
    IF offset = "ComponentState" THEN is_substate_writeable(frame, component_address)
    ELSE frame.actor = "Native"

\* Kernel::substate_write of a value of a substate of a component that names,
\* besides the children the substate already has, the node ids `node_ids`.
SubstateWrite ==
    /\ err = "none"
    /\ UNCHANGED lib_vars
    /\ \/ CostingFailure("Write", "substate_write")
       \/ /\ Charge("Write")
          /\ \E component_address \in ComponentIds, node_ids \in NodeIdChoices(CurrentFrame),
                offset \in WrittenOffsets :
               /\ node_ids # {}
               /\ LET written == [kind |-> offset, node |-> component_address]
                      value == [NoPayload EXCEPT !.node_ids = node_ids]
                      call == FailedCall("substate_write", written, CurrentFrame, value, TRUE)
                  IN IF ~is_offset_writeable(CurrentFrame, offset, component_address)
                     THEN /\ Fail("SubstateWriteNotWriteable", call)
                          /\ UNCHANGED <<call_frames, track_substates, track_nodes>>
                     ELSE IF ~can_own_nodes(offset)
                     THEN /\ Fail("ValueNotAllowed", call)
                          /\ UNCHANGED <<call_frames, track_substates, track_nodes>>
                     ELSE \E taken \in take_available_values(CurrentFrame, node_ids, TRUE,
                                                             container_locks) :
                            LET frame1 == [CurrentFrame EXCEPT !.owned = taken.owned,
                                                               !.node_refs = taken.node_refs]
                                frames1 == WithTop(call_frames, frame1)
                                pointer == IF component_address \in DOMAIN frame1.node_refs
                                           THEN frame1.node_refs[component_address] ELSE NoPtr
                                nodes == to_nodes(taken.taken)
                            IN IF taken.res # "Ok"
                               THEN /\ Fail(taken.res, call)
                                    /\ call_frames' = frames1
                                    /\ UNCHANGED <<track_substates, track_nodes>>
                               ELSE IF pointer = NoPtr
                               THEN /\ Fail("SubstateReadSubstateNotFound", call)
                                    /\ call_frames' = frames1
                                    /\ UNCHANGED <<track_substates, track_nodes>>
                               ELSE IF taken.missing # {}
                               THEN /\ Fail("RENodeNotFound", call)
                                    /\ call_frames' = frames1
                                    /\ UNCHANGED <<track_substates, track_nodes>>
                               ELSE IF /\ pointer.loc = "Heap"
                                       /\ pointer.root \notin DOMAIN frames1[pointer.frame + 1].owned
                               THEN /\ Fail("Panic", call)
                                    /\ call_frames' = frames1
                                    /\ UNCHANGED <<track_substates, track_nodes>>
                               ELSE IF pointer.loc = "Heap"
                               THEN /\ call_frames' =
                                         [frames1 EXCEPT
                                            ![pointer.frame + 1].owned[pointer.root].child_nodes =
                                                nodes @@ @]
                                    /\ UNCHANGED <<track_substates, track_nodes>>
                                    /\ Started(StartedCall("substate_write", written, value))
                               ELSE /\ call_frames' = frames1
                                    /\ track_substates' =
                                         track_substates \cup UNION {SubstatesOf(id) : id \in DOMAIN nodes}
                                    /\ track_nodes' = nodes @@ track_nodes
                                    /\ Started(StartedCall("substate_write", written, value))
          /\ UNCHANGED <<id_allocator, container_locks, track_locks>>

\* REActor::is_substate_readable
is_substate_readable(frame, substate_id) ==
    \/ frame.actor = "Native"
    \/ substate_id[1] = "ComponentInfo"
    \/ frame.exec.kind = "Component" /\ frame.exec.node = substate_id[2]

\* The nodes the ComponentState value of a component in the store names.
StoredChildren(substate_id) ==
    IF substate_id = Sid("ComponentState", StoredComponent) THEN {StoredVault} ELSE {}

\* Kernel::substate_read of a substate of the component on ledger: the nodes
\* the value names become visible to the frame.
SubstateRead ==
    /\ err = "none"
    /\ UNCHANGED lib_vars
    /\ \/ CostingFailure("Read", "substate_read")
       \/ /\ Charge("Read")
          /\ \E substate_id \in {Sid("ComponentInfo", StoredComponent),
                                  Sid("ComponentState", StoredComponent)} :
               LET call == FailedCall("substate_read", NoReceiver, CurrentFrame, NoPayload, TRUE)
                   node_id == substate_id[2]
                   children == [c \in StoredChildren(substate_id) |-> StorePtr]
               IN IF ~is_substate_readable(CurrentFrame, substate_id)
                  THEN /\ Fail("SubstateReadNotReadable", call)
                       /\ UNCHANGED call_frames
                  ELSE IF node_id \notin DOMAIN CurrentFrame.node_refs
                  THEN /\ Fail("SubstateReadSubstateNotFound", call)
                       /\ UNCHANGED call_frames
                  ELSE IF /\ substate_id[1] = "ComponentInfo"
                          /\ CurrentFrame.node_refs[node_id].loc = "Store"
                          /\ acquire_lock_result(track_locks, track_substates, substate_id,
                                                 FALSE) # "Ok"
                  THEN /\ Fail("Panic", call)
                       /\ UNCHANGED call_frames
                  ELSE /\ call_frames' =
                            WithTop(call_frames,
                                    [CurrentFrame EXCEPT !.node_refs = children @@ @])
                       /\ Done
          /\ UNCHANGED <<id_allocator, container_locks, track_locks, track_substates,
                         track_nodes>>

\* The frame runs the named method of a vault in the store.
RunsVaultMethod(frame, idents) ==
    /\ frame.exec.kind = "RENodeRef"
    /\ Kind(frame.exec.node) = "Vault"
    /\ frame.exec.node \in DOMAIN track_nodes
    /\ frame.fn_ident \in idents

\* Vault::lock_fee, run by the callee: one unit leaves the vault and is added
\* to the fee reserve.
VaultLockFee ==
    /\ err = "none"
    /\ UNCHANGED lib_vars
    /\ RunsVaultMethod(CurrentFrame, LockFeeIdents)
    /\ track_nodes[CurrentFrame.exec.node].amount > 0
    /\ fee_reserve < MaxStoreFee
    /\ track_nodes' = [track_nodes EXCEPT ![CurrentFrame.exec.node].amount = @ - 1]
    /\ fee_reserve' = fee_reserve + 1
    /\ call_frames' = MarkMintBurn(call_frames)
    /\ UNCHANGED <<id_allocator, container_locks, track_locks, track_substates, fee_table,
                   substate_store>>
    /\ Done

\* Vault::take, run by the callee: one unit leaves the vault for a new bucket
\* of the callee.
VaultTake ==
    /\ err = "none"
    /\ UNCHANGED lib_vars
    /\ RunsVaultMethod(CurrentFrame, {"call"})
    /\ track_nodes[CurrentFrame.exec.node].amount > 0
    /\ IdsLeft("Bucket")
    /\ \/ CostingFailure("Create", "node_create")
       \/ /\ Charge("Create")
          /\ LET out == node_create(CurrentFrame, id_allocator,
                                    Node("Bucket", 1, FALSE, NoNode),
                                    CHOOSE t \in take_available_values(CurrentFrame, {}, TRUE,
                                                                       container_locks) : TRUE)
             IN /\ call_frames' = WithTop(call_frames, out.frame)
                /\ id_allocator' = Allocated(id_allocator, "Bucket")
          /\ track_nodes' = [track_nodes EXCEPT ![CurrentFrame.exec.node].amount = @ - 1]
          /\ UNCHANGED <<container_locks, track_locks, track_substates>>
          /\ Done

\* A transaction that creates nodes and moves them between frames.
Next ==
    \/ InvokeMethod("nodes")
    \/ InvokeFunction("nodes")
    \/ Return("nodes")
    \/ CalleeError
    \/ NodeCreate("nodes")
    \/ BucketCreateProof
    \/ NodeDrop
    \/ AuthZonePush
    \/ NodeGlobalize
    \/ SubstateWrite

Spec == Init /\ [][Next]_vars

\* A transaction that calls functions and methods on global addresses.
LockNext ==
    \/ InvokeMethod("addresses")
    \/ InvokeFunction("addresses")
    \/ Return("addresses")
    \/ CalleeError
    \/ NodeCreate("addresses")
    \/ NodeGlobalize

LockSpec == Init /\ [][LockNext]_vars

\* A transaction that passes component references through nested calls.
RefNext ==
    \/ InvokeMethod("references")
    \/ InvokeFunction("references")
    \/ Return("references")
    \/ CalleeError
    \/ NodeCreate("references")
    \/ NodeGlobalize

RefSpec == Init /\ [][RefNext]_vars

\* A transaction whose calls are paid from a fee reserve of MaxFee units.
FeeNext ==
    \/ InvokeMethod("fees")
    \/ InvokeFunction("fees")
    \/ Return("fees")
    \/ CalleeError
    \/ NodeCreate("fees")
    \/ NodeDrop
    \/ NodeGlobalize
    \/ SubstateRead
    \/ BorrowNode
    \/ VaultLockFee

FeeSpec == FeeInit /\ [][FeeNext]_vars

\* A transaction that reads the component on ledger, takes from its vault
\* and locks a fee.
StoreNext ==
    \/ InvokeMethod("store")
    \/ InvokeFunction("store")
    \/ Return("store")
    \/ CalleeError
    \/ NodeGlobalize
    \/ NodeCreate("store")
    \/ SubstateRead
    \/ VaultLockFee
    \/ VaultTake

StoreSpec == StoreInit /\ [][StoreNext]_vars

\* A transaction whose calls name several nodes, each call run twice from
\* the same state.
RunsNext ==
    \/ InvokeMethod("runs")
    \/ InvokeFunction("runs")
    \/ Return("runs")
    \/ CalleeError
    \/ NodeCreate("runs")

RunsSpec == Init /\ [][RunsNext]_vars

\* A transaction that runs methods of the component on ledger, which read
\* its substates and call on.
ReadNext ==
    \/ InvokeMethod("reads")
    \/ InvokeFunction("reads")
    \/ Return("reads")
    \/ CalleeError
    \/ SubstateRead

ReadSpec == StoreInit /\ [][ReadNext]_vars

\* -------------------------------------------------------------- properties
AllChildIds(frame) == UNION {DOMAIN frame.owned[id].child_nodes : id \in DOMAIN frame.owned}

\* C1: every live node id is owned by exactly one location: never in two
\* frames' owned_heap_nodes, never in a frame's owned set and in a node's
\* child_nodes, never in a frame's owned set and in Track.
C1_OwnedByOneLocation ==
    /\ \A i, j \in DOMAIN call_frames :
          i # j => DOMAIN call_frames[i].owned \cap DOMAIN call_frames[j].owned = {}
    /\ \A i, j \in DOMAIN call_frames :
          DOMAIN call_frames[i].owned \cap AllChildIds(call_frames[j]) = {}
    /\ \A i \in DOMAIN call_frames :
          DOMAIN call_frames[i].owned \cap DOMAIN track_nodes = {}

\* C1, for the ids the id allocator issues (every id but the worktop's): the
\* same exclusivity.
C1_AllocatedIdsOwnedByOneLocation ==
    /\ \A i, j \in DOMAIN call_frames :
          i # j => DOMAIN call_frames[i].owned \cap DOMAIN call_frames[j].owned
                        \subseteq {WorktopId}
    /\ \A i, j \in DOMAIN call_frames :
          DOMAIN call_frames[i].owned \cap AllChildIds(call_frames[j]) = {}
    /\ \A i \in DOMAIN call_frames :
          DOMAIN call_frames[i].owned \cap DOMAIN track_nodes = {}

\* C2: across a successful invocation that performs no mint or burn, the
\* amount held in all buckets, vaults and worktops is the same as before it.
C2_AmountConserved ==
    (completed_call.op = "return" /\ completed_call.no_mint_burn)
        => Total(call_frames, track_nodes) = completed_call.total_before

\* An invocation without mint or burn has returned a non-empty bucket.
C2_BucketMovedAndReturned ==
    /\ completed_call.op = "return"
    /\ completed_call.no_mint_burn
    /\ completed_call.returned > 0

InvokeOps == {"invoke_method", "invoke_function"}

\* The frame a step has pushed, and whether id is its consumed receiver.
PushedFrame == call_frames'[Len(call_frames')]
IsConsumedReceiver(frame, id) == frame.exec.kind = "Consumed" /\ frame.exec.node = id

DepthReached(call) ==
    IF call.op = "invoke_method" THEN method_depth_reached(call.frames_before)
    ELSE function_depth_reached(call.frames_before)

\* C3: every proof passed as an argument is restricted in the child frame
\* when the frame is pushed; no invocation is started with a restricted proof
\* among its arguments, and the attempt (past the depth and payload checks,
\* with no locked bucket beside it) fails with CantMoveRestrictedProof.
C3_ProofsRestrictedOnce ==
    /\ [][Len(call_frames') = Len(call_frames) + 1 =>
            /\ \A id \in DOMAIN PushedFrame.owned :
                  (Kind(id) = "Proof" /\ ~IsConsumedReceiver(PushedFrame, id))
                      => PushedFrame.owned[id].root.restricted
            /\ \A id \in DOMAIN CurrentFrame.owned :
                  (CurrentFrame.owned[id].root.kind = "Proof"
                      /\ CurrentFrame.owned[id].root.restricted
                      /\ ~IsConsumedReceiver(PushedFrame, id))
                      => id \in DOMAIN call_frames'[Len(call_frames)].owned]_vars
    /\ [](  (/\ failed_call.op \in InvokeOps
             /\ failed_call.restricted_arg
             /\ failed_call.payload_ok
             /\ ~failed_call.locked_arg
             /\ ~DepthReached(failed_call))
                => err = "CantMoveRestrictedProof")

\* A proof that was passed as an argument is named by a further invocation,
\* which fails with CantMoveRestrictedProof.
C3_SecondPassFailed ==
    /\ err = "CantMoveRestrictedProof"
    /\ failed_call.op \in InvokeOps
    /\ failed_call.restricted_arg
    /\ Len(failed_call.frames_before) > 1

\* C4: a bucket whose lock count is greater than 0 is never moved out of its
\* owning frame by an invocation, be it as an argument, as a return value or
\* as the Consumed receiver: after every step that pushes or pops a frame the
\* bucket is owned by the frame that owned it.
C4_LockedBucketNeverMoved ==
    [][Len(call_frames') # Len(call_frames) =>
          \A i \in DOMAIN call_frames :
             \A b \in DOMAIN call_frames[i].owned :
                (Kind(b) = "Bucket" /\ container_locks[b] > 0)
                    => (i \in DOMAIN call_frames' /\ b \in DOMAIN call_frames'[i].owned)]_vars

\* The frames of the stack `frames` that run a method of the stored component
\* c and hold the lock on its ComponentState.
StateLockHolders(frames, c) ==
    {i \in DOMAIN frames :
        /\ frames[i].exec.kind = "Component"
        /\ frames[i].exec.node = c
        /\ <<Sid("ComponentState", c), FALSE>> \in frames[i].locked_values}

\* The frames that recorded a lock on the substate sid for release.
LockHolders(sid) == {i \in DOMAIN call_frames : \E l \in call_frames[i].locked_values : l[1] = sid}

\* A failed invoke_method on Receiver::Component(c), made past the depth
\* check from a frame that sees c in the store, while a method of c is active.
NestedCallOnActiveComponent ==
    /\ failed_call.op = "invoke_method"
    /\ failed_call.receiver.kind = "Component"
    /\ StateLockHolders(failed_call.frames_before, failed_call.receiver.node) # {}
    /\ ~method_depth_reached(failed_call.frames_before)
    /\ LET top == failed_call.frames_before[Len(failed_call.frames_before)]
       IN find_pointer(top, failed_call.receiver.node) = StorePtr

\* C5: no substate is write-locked by two frames at once; while a method of a
\* stored component C is active, a nested invoke_method on
\* Receiver::Component(C) fails with a reentrancy error and pushes no frame.
C5_NoSecondWriteLock ==
    /\ \A sid \in SubstateIds : track_locks[sid] < 0 => Cardinality(LockHolders(sid)) <= 1
    /\ \A c \in ComponentIds : Cardinality(StateLockHolders(call_frames, c)) <= 1
    /\ NestedCallOnActiveComponent =>
          /\ err = "ComponentReentrancy"
          /\ call_frames = failed_call.frames_before
          /\ track_locks = failed_call.locks_before

\* A nested call on the component whose method is running was refused.
C5_NestedCallRefused == NestedCallOnActiveComponent /\ err = "ComponentReentrancy"

\* C6: when an invocation returns successfully, the lock state of every
\* substate is the same as immediately before the invocation started.
C6_LocksRestoredOnReturn ==
    completed_call.op = "return" => track_locks = completed_call.locks_before

\* An invocation that took Track locks has returned successfully.
C6_LockingCallReturned ==
    completed_call.op = "return" /\ completed_call.locked_values # {}

\* C7: when an invocation fails because authorization is denied or because the
\* callee returns an error, every Track lock acquired for it is released:
\* the lock state is the one before the invocation.
C7_LocksReleasedOnFailure ==
    (\/ failed_call.op = "invoke_method" /\ err = "NotAuthorized"
     \/ failed_call.op = "callee")
        => track_locks = failed_call.locks_before

DropFailures ==
    {"DropFailure::Package", "DropFailure::Vault", "DropFailure::KeyValueStore",
     "DropFailure::Component", "DropFailure::Bucket", "DropFailure::Resource",
     "DropFailure::Worktop"}

NonDroppable(node) ==
    \/ node.kind \in {"Vault", "KeyValueStore", "Component", "Package", "ResourceManager"}
    \/ node.kind \in {"Bucket", "Worktop"} /\ node.amount > 0

\* The frame whose return failed, and the nodes it was left with once the
\* return values named by the output were taken.
ReturningFrame == failed_call.frames_before[Len(failed_call.frames_before)]
LeftNodes ==
    {ReturningFrame.owned[id].root : id \in DOMAIN ReturningFrame.owned \ failed_call.input.node_ids}

\* The output of the failed return passed every check made before the frame's
\* nodes are dropped.
OutputAccepted ==
    /\ failed_call.op = "return"
    /\ process_return_data(failed_call.input) = "Ok"
    /\ failed_call.input.node_ids \subseteq DOMAIN ReturningFrame.owned
    /\ ~failed_call.restricted_arg
    /\ ~failed_call.locked_arg
    /\ return_references_ok(ReturningFrame, failed_call.input)

\* C9: no invocation returns successfully while its frame, the return values
\* taken, still owns a non-droppable node; such a return fails with a drop
\* failure, and the frame's auth zone is already cleared when it does.
C9_NoLeakOnReturn ==
    /\ completed_call.op = "return" => \A node \in completed_call.dropped : ~NonDroppable(node)
    /\ (OutputAccepted /\ \E node \in LeftNodes : NonDroppable(node)) => err \in DropFailures
    /\ (failed_call.op = "return" /\ err \in DropFailures) => CurrentFrame.auth_zone = <<>>

\* A return failed with a drop failure in a frame whose auth zone held a proof.
C9_LeakWithAuthZone ==
    /\ failed_call.op = "return"
    /\ err \in DropFailures
    /\ \E node \in LeftNodes : NonDroppable(node)
    /\ ReturningFrame.auth_zone # <<>>

\* C10: a frame that ends owning, besides its return values, nothing but
\* empty buckets passes the frame-end check: its return does not fail with
\* DropFailure::Bucket.
C10_EmptyBucketPassesFrameEnd ==
    ~(/\ OutputAccepted
      /\ err = "DropFailure::Bucket"
      /\ \A node \in LeftNodes : node.kind = "Bucket" /\ node.amount = 0)

\* C11: the call-frame stack never holds more than max_depth frames:
\* invoke_function and invoke_method both refuse, with
\* MaxCallDepthLimitReached, to push onto a stack of max_depth frames.
C11_StackWithinMaxDepth == Len(call_frames) <= MaxDepth

\* The frame that made the failed call.
FailedCaller == failed_call.frames_before[Len(failed_call.frames_before)]

\* The invocations that take the child's references from the caller's
\* node_refs: invoke_method, and invoke_function from a non-root frame.
PassesReferences(op, frames) ==
    op = "invoke_method" \/ (op = "invoke_function" /\ Len(frames) > 1)

UnknownReferences(frame, input) ==
    input.refed_component_addresses \ DOMAIN frame.node_refs

\* The failed invocation, made without its component references, pushes a frame.
PushesWithoutReferences ==
    LET call == failed_call
        input == [call.input EXCEPT !.refed_component_addresses = {}]
    IN \E taken \in take_available_values(FailedCaller, input.node_ids, FALSE,
                                          container_locks) :
          IF call.op = "invoke_method"
          THEN \E fn_ident \in FnIdents(call.receiver) :
                  invoke_method(call.frames_before, call.locks_before, track_substates,
                                track_nodes, call.receiver, fn_ident, input,
                                call.authorized, taken).res = "Ok"
          ELSE invoke_function(call.frames_before, call.locks_before, track_substates,
                               track_nodes, call.type_name, call.fn_exists, input,
                               taken).res = "Ok"

FailedWithUnknownReference ==
    /\ failed_call.op \in InvokeOps
    /\ PassesReferences(failed_call.op, failed_call.frames_before)
    /\ UnknownReferences(FailedCaller, failed_call.input) # {}

\* C12: an invoke_method, or an invoke_function from a non-root frame, pushes
\* a child frame only if every component address of its input is in the
\* caller's node_refs, and the child then holds the caller's pointer for each;
\* with an address the caller does not hold, the call pushes no frame and,
\* when nothing else is wrong with it, fails with
\* InvokeMethodInvalidReferencePass, which no other check of a call returns.
C12_ReferencesPassedFromCaller ==
    /\ [][(/\ Len(call_frames') = Len(call_frames) + 1
           /\ PassesReferences(completed_call'.op, call_frames))
            => \A c \in completed_call'.input.refed_component_addresses :
                  /\ c \in DOMAIN CurrentFrame.node_refs
                  /\ c \in DOMAIN PushedFrame.node_refs
                  /\ PushedFrame.node_refs[c] = CurrentFrame.node_refs[c]]_vars
    /\ [](FailedWithUnknownReference =>
            /\ Len(call_frames) = Len(failed_call.frames_before)
            /\ PushesWithoutReferences => err = "InvokeMethodInvalidReferencePass")
    /\ []((err = "InvokeMethodInvalidReferencePass" /\ failed_call.op \in InvokeOps)
            => FailedWithUnknownReference)

\* An invoke_method failed on an address its caller does not hold, in a frame
\* that had passed a reference it holds to a child before.
C12_UnknownReferenceRefused ==
    /\ err = "InvokeMethodInvalidReferencePass"
    /\ failed_call.op = "invoke_method"
    /\ DOMAIN FailedCaller.node_refs \cap ComponentIds # {}

\* C13: a component address in the input of an invoke_function from the root
\* frame becomes visible to the child frame only if the store holds its
\* substate: an address without a substate is never made visible.
C13_RootReferencesValidated ==
    [][(/\ Len(call_frames) = 1
        /\ Len(call_frames') = 2
        /\ completed_call'.op = "invoke_function")
         => \A c \in completed_call'.input.refed_component_addresses :
               c \in DOMAIN PushedFrame.node_refs
                   => Sid("ComponentInfo", c) \in track_substates]_vars

\* C14: a successful return pops the callee's frame and leaves every node id
\* named in the return value, which the callee owned, in the caller's frame
\* and in no other; a return value naming a node the callee does not own
\* fails, past the checks made before it, with RENodeNotFound.
C14_ReturnedNodesMoveToCaller ==
    /\ [][completed_call'.op = "return" =>
            /\ Len(call_frames') = Len(call_frames) - 1
            /\ \A id \in completed_call'.output.node_ids :
                  /\ id \in DOMAIN CurrentFrame.owned
                  /\ \A i \in DOMAIN call_frames' :
                        id \in DOMAIN call_frames'[i].owned <=> i = Len(call_frames')
                  /\ call_frames'[Len(call_frames')].owned[id] = CurrentFrame.owned[id]]_vars
    /\ []((/\ failed_call.op = "return"
           /\ process_return_data(failed_call.input) = "Ok"
           /\ ~failed_call.restricted_arg
           /\ ~failed_call.locked_arg
           /\ ~(failed_call.input.node_ids \subseteq DOMAIN ReturningFrame.owned))
            => err = "RENodeNotFound")

\* A callee below a non-root caller has returned two of its nodes.
C14_NodesReturned ==
    /\ completed_call.op = "return"
    /\ Cardinality(completed_call.output.node_ids) = 2
    /\ Len(call_frames) = 2

\* The component addresses of an output that the frame's node_refs does not
\* map to a Store pointer.
NotStoreReferences(frame, output) ==
    {c \in output.refed_component_addresses :
        c \notin DOMAIN frame.node_refs \/ frame.node_refs[c] # StorePtr}

\* C15: a return succeeds only if the callee's node_refs maps every component
\* address of the output to a Store pointer, and the caller's node_refs then
\* maps each of them to Store; with a Heap pointer or an address the callee
\* does not hold, the return fails, past the checks made before it, with
\* InvokeMethodInvalidReferencePass.
C15_OnlyStoreReferencesReturned ==
    /\ [][completed_call'.op = "return" =>
            /\ NotStoreReferences(CurrentFrame, completed_call'.output) = {}
            /\ \A c \in completed_call'.output.refed_component_addresses :
                  /\ c \in DOMAIN call_frames'[Len(call_frames')].node_refs
                  /\ call_frames'[Len(call_frames')].node_refs[c] = StorePtr]_vars
    /\ []((/\ failed_call.op = "return"
           /\ process_return_data(failed_call.input) = "Ok"
           /\ ~failed_call.restricted_arg
           /\ ~failed_call.locked_arg
           /\ failed_call.input.node_ids \subseteq DOMAIN ReturningFrame.owned
           /\ NotStoreReferences(ReturningFrame, failed_call.input) # {})
            => err = "InvokeMethodInvalidReferencePass")

\* A return failed on a component the callee holds by a Heap pointer.
C15_HeapReferenceRefused ==
    /\ failed_call.op = "return"
    /\ err = "InvokeMethodInvalidReferencePass"
    /\ \E c \in failed_call.input.refed_component_addresses :
          c \in DOMAIN ReturningFrame.node_refs /\ ReturningFrame.node_refs[c].loc = "Heap"

\* C16: invoke_method pushes a frame only for a receiver node that the caller
\* owns or holds in its node_refs, whatever the kind of the node.
C16_ReceiverPointerHeld ==
    [][(/\ Len(call_frames') = Len(call_frames) + 1
        /\ completed_call'.op = "invoke_method"
        /\ completed_call'.receiver.kind # "AuthZoneRef")
         => completed_call'.receiver.node \in
                DOMAIN CurrentFrame.owned \cup DOMAIN CurrentFrame.node_refs]_vars

\* C17: every kernel API call charges the fee reserve before it performs its
\* effect: a node_drop that takes a node out of the frame has lowered the
\* balance of the reserve, as node_create and node_globalize do.
C17_EveryCallCharged ==
    [][((NodeDrop \/ NodeCreate("fees") \/ NodeGlobalize) /\ err' = "none")
        => fee_reserve' < fee_reserve]_vars

\* C18 as claimed: no step raises the balance of the fee reserve.
C18_ReserveNeverIncreases == [][fee_reserve' <= fee_reserve]_vars

\* The cost entries a failing kernel call has paid when it returns its error.
ApiEntry(op) ==
    CASE op = "invoke_method" -> "InvokeMethod"
      [] op = "invoke_function" -> "InvokeFunction"
      [] op = "node_create" -> "Create"
      [] op = "node_globalize" -> "Globalize"
      [] op = "substate_read" -> "Read"
      [] op = "borrow_node" -> "Borrow"
      [] OTHER -> "Write"

RunEntry(op) == IF op = "invoke_method" THEN "run_method" ELSE "run_function"

ChargingOps ==
    {"invoke_method", "invoke_function", "node_create", "node_globalize", "substate_read",
     "borrow_node"}

PaidBeforeFailure(op, e, balance) ==
    LET api == system_api_cost(fee_table, ApiEntry(op))
        run == IF op \in InvokeOps THEN system_api_cost(fee_table, RunEntry(op)) ELSE 0
    IN IF op \notin ChargingOps \/ e = "MaxCallDepthLimitReached" THEN 0
       ELSE IF e = "CostingError" THEN (IF api <= balance /\ op \in InvokeOps THEN api ELSE 0)
       ELSE api + run

\* C18: the balance of the fee reserve rises only by what a lock_fee run by
\* the callee of a vault method takes from the vault; every other step leaves
\* it or lowers it, and a call that fails leaves the reserve lowered by every
\* cost it paid before the failure: nothing is refunded, by the failing call
\* or by the callers it unwinds through.
C18_ConsumedCostsKept ==
    /\ [][fee_reserve' > fee_reserve =>
            /\ RunsVaultMethod(CurrentFrame, LockFeeIdents)
            /\ fee_reserve' - fee_reserve =
                  track_nodes[CurrentFrame.exec.node].amount
                      - track_nodes'[CurrentFrame.exec.node].amount]_vars
    /\ [][(err = "none" /\ err' # "none") =>
            fee_reserve' = fee_reserve - PaidBeforeFailure(failed_call'.op, err', fee_reserve)]_vars

\* The first call of the transaction, an invocation, failed after its two charges.
C18_FailedAfterCharges ==
    /\ failed_call.op \in InvokeOps
    /\ err \notin {"none", "CostingError", "MaxCallDepthLimitReached"}
    /\ Len(failed_call.frames_before) = 1
    /\ fee_reserve = MaxFee - 2

\* What the two charges of an invocation add up to.
InvokeCost(op) ==
    system_api_cost(fee_table, ApiEntry(op)) + system_api_cost(fee_table, RunEntry(op))

\* C19: an invoke_function / invoke_method that passes the depth test and whose
\* system-API cost or run cost the fee reserve cannot cover fails with
\* CostingError, no frame is pushed without both charges, and the failure takes
\* no node from the caller, acquires no Track lock and pushes no frame: the
\* frame stack, the heap nodes and the Track locks are those before the call.
C19_CostingErrorBeforeEffects ==
    /\ []((err = "CostingError" /\ failed_call.op \in InvokeOps) =>
            /\ call_frames = failed_call.frames_before
            /\ track_locks = failed_call.locks_before)
    /\ [][(err = "CostingError" /\ failed_call.op \in InvokeOps)' =>
            UNCHANGED <<call_frames, track_locks, track_nodes, container_locks,
                        id_allocator, substate_store>>]_vars
    /\ [][(/\ err = "none" /\ err' # "none"
           /\ failed_call'.op \in InvokeOps
           /\ err' # "MaxCallDepthLimitReached"
           /\ fee_reserve < InvokeCost(failed_call'.op)) => err' = "CostingError"]_vars
    /\ [][(Len(call_frames') > Len(call_frames)) =>
            \E op \in InvokeOps : fee_reserve' = fee_reserve - InvokeCost(op)]_vars

\* An invocation carrying a node of the caller met a reserve that covers the
\* system-API cost and not the run cost.
C19_RunCostNotCovered ==
    /\ err = "CostingError"
    /\ failed_call.op \in InvokeOps
    /\ failed_call.input.node_ids # {}
    /\ failed_call.reserve_before = system_api_cost(fee_table, ApiEntry(failed_call.op))
    /\ fee_reserve = 0

\* The frames whose receiver lock is released write-through.
WriteThroughLocks(frame) == {lv \in frame.locked_values : lv[2]}

\* The vaults of the store whose value differs from the one the transaction began with.
StoreWrites ==
    {id \in DOMAIN substate_store :
        id # StoredVault \/ substate_store[id] # Node("Vault", 1, FALSE, NoNode)}

\* C20: a Track lock is write-through only when it is the receiver lock of a
\* lock_fee / lock_contingent_fee invocation on a vault of the store; the
\* store changes only when such an invocation returns, and only at that
\* vault, which takes the value Track holds for it; so when the transaction
\* aborts, the store differs from the one it began with at most in that
\* vault, by the fee locked, and every other buffered write is absent from it.
C20_OnlyLockedFeePersists ==
    /\ [](\A i \in DOMAIN call_frames :
            \A lv \in WriteThroughLocks(call_frames[i]) :
              /\ lv[1] = Sid("Vault", call_frames[i].exec.node)
              /\ call_frames[i].exec.kind = "RENodeRef"
              /\ call_frames[i].fn_ident \in LockFeeIdents
              /\ call_frames[i].exec.node \in DOMAIN substate_store
              /\ i > 1 /\ call_frames[i - 1].node_refs[call_frames[i].exec.node] = StorePtr)
    /\ [][substate_store' # substate_store =>
            /\ RunsVaultMethod(CurrentFrame, LockFeeIdents)
            /\ err' = "none" /\ Len(call_frames') = Len(call_frames) - 1
            /\ substate_store' = [substate_store EXCEPT
                                    ![CurrentFrame.exec.node] = track_nodes[CurrentFrame.exec.node]]
            /\ track_nodes[CurrentFrame.exec.node].amount
                  <= substate_store[CurrentFrame.exec.node].amount]_vars
    /\ [](err # "none" =>
            /\ DOMAIN substate_store = {StoredVault}
            /\ StoreWrites # {} =>
                 \E fee \in 1..MaxAmount :
                    substate_store[StoredVault] = Node("Vault", 1 - fee, FALSE, NoNode))

\* The transaction aborted after a lock_fee returned: the store holds the
\* vault without the fee, and the component globalized in the transaction
\* is in Track and not in the store.
C20_AbortedAfterLockFee ==
    /\ err # "none"
    /\ substate_store[StoredVault].amount = 0
    /\ \E id \in DOMAIN track_nodes : Kind(id) = "Component" /\ id \notin DOMAIN substate_store

\* The node kinds RENodeProperties::can_globalize answers true for.
GlobalizableKinds == {"Component", "Package", "ResourceManager", "System"}

\* C21: a node_globalize that succeeds has moved a Component, Package,
\* ResourceManager or System node of the frame into Track; a node_globalize
\* of a node of any other kind fails with RENodeGlobalizeTypeNotAllowed, and
\* the failing step leaves the frames (owned nodes, node_refs) and Track
\* as they were.
C21_GlobalizeByKind ==
    /\ [][(NodeGlobalize /\ err' = "none") =>
            \E id \in DOMAIN CurrentFrame.owned :
               /\ Kind(id) \in GlobalizableKinds
               /\ id \notin DOMAIN call_frames'[Len(call_frames')].owned
               /\ id \in DOMAIN track_nodes' /\ id \notin DOMAIN track_nodes]_vars
    /\ []((failed_call.op = "node_globalize" /\ err # "CostingError") =>
            (err = "RENodeGlobalizeTypeNotAllowed"
                <=> Kind(failed_call.receiver.node) \notin GlobalizableKinds))
    /\ [][(err = "RENodeGlobalizeTypeNotAllowed")' =>
            UNCHANGED <<call_frames, track_nodes, track_substates, track_locks,
                        container_locks, substate_store>>]_vars

\* A frame that owns a vault asked to globalize it and was refused.
C21_VaultRefused ==
    /\ err = "RENodeGlobalizeTypeNotAllowed"
    /\ Kind(failed_call.receiver.node) = "Vault"
    /\ failed_call.receiver.node \in DOMAIN CurrentFrame.owned

\* The node kinds RENode::verify_can_persist allows.
PersistableKinds == {"KeyValueStore", "Component", "Vault"}

\* The substates that can own nodes.
OwningOffsets == {"Global", "KeyValueStoreEntry", "ComponentState"}

\* The nodes of the calling frame, named by the failed call, that cannot be persisted.
RefusedChildren ==
    {id \in failed_call.input.node_ids \cap DOMAIN FailedCaller.owned :
        Kind(id) \notin PersistableKinds}

\* C22: no Bucket, Proof or Worktop node is held in Track or in the store,
\* and every child of a heap node is a KeyValueStore, Component or Vault;
\* a substate_write that was accepted wrote a substate that can own nodes;
\* a node_create or substate_write that fails with ValueNotAllowed named a
\* node that cannot be persisted or a substate that cannot own nodes, and
\* one that names such a node of the frame, movable, fails with
\* ValueNotAllowed (a substate_write after its authorization).
C22_OnlyPersistableNodesStored ==
    /\ [](\A id \in DOMAIN track_nodes \cup DOMAIN substate_store :
             Kind(id) \notin {"Bucket", "Proof", "Worktop"})
    /\ [](\A i \in DOMAIN call_frames : \A id \in DOMAIN call_frames[i].owned :
             \A c \in DOMAIN call_frames[i].owned[id].child_nodes :
                Kind(c) \in PersistableKinds)
    /\ [](completed_call.op = "substate_write" =>
             /\ completed_call.receiver.kind \in OwningOffsets
             /\ \A id \in completed_call.input.node_ids : Kind(id) \in PersistableKinds)
    /\ []((failed_call.op \in {"node_create", "substate_write"} /\ err = "ValueNotAllowed") =>
             \/ RefusedChildren # {}
             \/ failed_call.op = "substate_write" /\ failed_call.receiver.kind \notin OwningOffsets)
    /\ []((/\ failed_call.op \in {"node_create", "substate_write"}
           /\ RefusedChildren # {}
           /\ ~failed_call.restricted_arg /\ ~failed_call.locked_arg) =>
             err \in {"ValueNotAllowed", "SubstateWriteNotWriteable"})
    /\ []((/\ failed_call.op = "substate_write"
           /\ failed_call.receiver.kind \notin OwningOffsets) =>
             err \in {"ValueNotAllowed", "SubstateWriteNotWriteable"})

\* A frame asked to create a component with a bucket it owns as child and was refused.
C22_BucketChildRefused ==
    /\ err = "ValueNotAllowed"
    /\ failed_call.op = "node_create"
    /\ \E id \in RefusedChildren : Kind(id) = "Bucket"

\* The kernel calls that name a node of the current frame.
NodeCalls == {"node_drop", "node_globalize", "borrow_node", "substate_borrow_mut"}

\* C23: a node_drop, node_globalize, borrow_node or substate_borrow_mut that
\* names a node the current frame does not own or cannot see returns a typed
\* error: the kernel never panics in one of these calls.
C23_UnknownNodeTypedError == failed_call.op \in NodeCalls => err # "Panic"

\* C24: two runs of a call from the same state with the same inputs end
\* alike, also on failure: the node id named in RENodeNotFound by the run and
\* by its replay is the same.
C24_SameMissingNodeReported == failed_call.op # "none" => failed_call.reported = failed_call.replayed

\* The frames of the stack `frames` that hold the lock on the ComponentState
\* of the stored component and see the vault that substate names: the vault
\* became visible to them by a read of the substate under that lock.
SeesChildThroughLock(frames) ==
    {i \in StateLockHolders(frames, StoredComponent) :
        StoredVault \in DOMAIN frames[i].node_refs}

\* C25: a child that became visible to a frame by a read of a locked
\* substate stays visible to the frame while the lock is open: the lock is
\* then held in Track, and every step either keeps the lock with the frame and
\* the child in its visible set, or releases the lock and ends the frame, so
\* that no frame sees the child through a lock that was dropped.
C25_ChildVisibleWhileLocked ==
    /\ [](\A i \in SeesChildThroughLock(call_frames) :
             track_locks[Sid("ComponentState", StoredComponent)] # 0)
    /\ [][\A i \in SeesChildThroughLock(call_frames) :
             IF i \in StateLockHolders(call_frames', StoredComponent)
             THEN StoredVault \in DOMAIN call_frames'[i].node_refs
             ELSE /\ i \notin DOMAIN call_frames'
                  /\ track_locks'[Sid("ComponentState", StoredComponent)] = 0]_vars

\* C25 witness: a method of the stored component read its state under its
\* lock, called out and got the call back, and still sees the vault.
C25_ChildSeenAfterNestedCall ==
    /\ err = "none"
    /\ completed_call.op = "return"
    /\ Len(call_frames) \in SeesChildThroughLock(call_frames)

\* --------------------------------------------------------------------- Heap
MaxHeapNodes == 3       \* node ids the calls on the Heap name

HeapKinds == <<"Component", "KeyValueStore", "Vault">>
HeapIds == {<<HeapKinds[((n - 1) % 3) + 1], 1 + ((n - 1) \div 3)>> : n \in 1..MaxHeapNodes}

\* HeapRENode {root, child_nodes}: the children are node ids.
HeapRENode(kind) == [root |-> Node(kind, 0, FALSE, NoNode), child_nodes |-> {}]

\* node_to_substates(root): the offsets of the substates of a node.
node_to_substates(root) ==
    IF root.kind = "Component" THEN {"ComponentInfo", "ComponentState"} ELSE {root.kind}

\* What a call on the Heap did: its arguments, its result and, for
\* RENodeNotOwned, the node id of the error.
HeapCall(op, node_ids, to, res, node_id) ==
    [op |-> op, node_ids |-> node_ids, to |-> to, res |-> res, node_id |-> node_id,
     moved |-> {}]

\* The state move_node_to_store / move_nodes_to_store leaves, with the result.
Moved(res, node_id, nodes, substates, values) ==
    [res |-> res, node_id |-> node_id, nodes |-> nodes, substates |-> substates,
     values |-> values]

\* Heap::create_node(node_id, node)
HeapCreateNode ==
    /\ \E node_id \in HeapIds :
          /\ heap' = (node_id :> HeapRENode(Kind(node_id))) @@ heap
          /\ heap_call' = HeapCall("create_node", {}, node_id, "Ok", NoNode)
    /\ UNCHANGED <<call_frames, id_allocator, container_locks, track_locks, track_substates,
                   track_nodes, err, failed_call, completed_call, fee_reserve, fee_table,
                   substate_store, id_generators, generator_calls, conversion,
                   move_stack, kv_store, parser, drop_call>>

HeapAddChildNodesUnchecked ==
    /\ \E node_ids \in {S \in SUBSET HeapIds : Cardinality(S) <= MaxArgs}, to \in DOMAIN heap :
          /\ heap' = [heap EXCEPT ![to].child_nodes = @ \cup node_ids]
          /\ heap_call' = HeapCall("add_child_nodes", node_ids, to, "Ok", NoNode)
    /\ UNCHANGED <<call_frames, id_allocator, container_locks, track_locks, track_substates,
                   track_nodes, err, failed_call, completed_call, fee_reserve, fee_table,
                   substate_store, id_generators, generator_calls, conversion,
                   move_stack, kv_store, parser, drop_call>>

\* Heap::add_child_nodes(node_ids, to): the sanity check visits the ids in
\* the order of the HashSet and returns the first id the heap does not hold.
HeapAddChildNodes ==
    /\ \E node_ids \in {S \in SUBSET HeapIds : Cardinality(S) <= MaxArgs}, to \in HeapIds :
          LET absent == node_ids \ DOMAIN heap
          IN IF absent # {}
             THEN /\ \E node_id \in absent :
                       heap_call' = HeapCall("add_child_nodes", node_ids, to,
                                             "RENodeNotOwned", node_id)
                  /\ UNCHANGED heap
             ELSE IF to \notin DOMAIN heap
             THEN /\ heap_call' = HeapCall("add_child_nodes", node_ids, to,
                                           "RENodeNotOwned", to)
                  /\ UNCHANGED heap
             ELSE /\ heap' = [heap EXCEPT ![to].child_nodes = @ \cup node_ids]
                  /\ heap_call' = HeapCall("add_child_nodes", node_ids, to, "Ok", NoNode)
    /\ UNCHANGED <<call_frames, id_allocator, container_locks, track_locks, track_substates,
                   track_nodes, err, failed_call, completed_call, fee_reserve, fee_table,
                   substate_store, id_generators, generator_calls, conversion,
                   move_stack, kv_store, parser, drop_call>>

move_nodes_to_store_none(nodes, substates, values, node_ids) ==
    {Moved("Ok", NoNode, nodes, substates, values)}

\* Heap::move_nodes_to_store and Heap::move_node_to_store: the outcomes, one
\* for each order in which the HashSets of children can be visited.  The first
\* node that is not in the heap ends the move with RENodeNotOwned.
RECURSIVE move_nodes_to_store(_, _, _, _)
RECURSIVE move_node_to_store(_, _, _, _)
move_nodes_to_store(nodes, substates, values, node_ids) ==
    IF node_ids = {} THEN {Moved("Ok", NoNode, nodes, substates, values)}
    ELSE UNION {
           UNION {IF m.res # "Ok" THEN {m}
                  ELSE move_nodes_to_store(m.nodes, m.substates, m.values, node_ids \ {id}) :
                  m \in move_node_to_store(nodes, substates, values, id)} :
           id \in node_ids}

move_node_to_store(nodes, substates, values, node_id) ==
    IF node_id \notin DOMAIN nodes
    THEN {Moved("RENodeNotOwned", node_id, nodes, substates, values)}
    ELSE LET node == nodes[node_id]
         IN move_nodes_to_store(
                Without(nodes, {node_id}),
                substates \cup {Sid(offset, node_id) : offset \in node_to_substates(node.root)},
                (node_id :> node.root) @@ values,
                node.child_nodes)

\* Heap::move_node_to_store(track, node_id)
HeapMoveNodeToStore ==
    /\ \E node_id \in HeapIds :
          \E m \in move_node_to_store(heap, track_substates, track_nodes, node_id) :
             /\ heap' = m.nodes
             /\ track_substates' = m.substates
             /\ track_nodes' = m.values
             /\ heap_call' = [HeapCall("move_node_to_store", {}, node_id, m.res, m.node_id)
                                 EXCEPT !.moved = DOMAIN heap \ DOMAIN m.nodes]
    /\ UNCHANGED <<call_frames, id_allocator, container_locks, track_locks, err, failed_call,
                   completed_call, fee_reserve, fee_table, substate_store, id_generators,
                   generator_calls, conversion,
                   move_stack, kv_store, parser, drop_call>>

\* Heap::remove_node(node_id)
HeapRemoveNode ==
    /\ \E node_id \in HeapIds :
          IF node_id \in DOMAIN heap
          THEN /\ heap' = Without(heap, {node_id})
               /\ heap_call' = HeapCall("remove_node", {}, node_id, "Ok", NoNode)
          ELSE /\ heap_call' = HeapCall("remove_node", {}, node_id, "RENodeNotOwned", node_id)
               /\ UNCHANGED heap
    /\ UNCHANGED <<call_frames, id_allocator, container_locks, track_locks, track_substates,
                   track_nodes, err, failed_call, completed_call, fee_reserve, fee_table,
                   substate_store, id_generators, generator_calls, conversion,
                   move_stack, kv_store, parser, drop_call>>

\* The calls on a Heap and the Track it moves nodes to.
HeapNext ==
    \/ HeapCreateNode
    \/ HeapAddChildNodes
    \/ HeapMoveNodeToStore
    \/ HeapRemoveNode

HeapSpec == Init /\ [][HeapNext]_vars

\* The node ids reached from the ids `frontier` through the child_nodes of `nodes`.
RECURSIVE ReachableFrom(_, _, _)
ReachableFrom(nodes, frontier, seen) ==
    IF frontier \subseteq seen THEN seen
    ELSE LET new == frontier \ seen
         IN ReachableFrom(nodes,
                          UNION {IF id \in DOMAIN nodes THEN nodes[id].child_nodes ELSE {} :
                                 id \in new},
                          seen \cup new)

\* C26: after a move_node_to_store(track, n) that returned Ok, n and the
\* nodes reachable from n through child_nodes are out of the heap, each of
\* their substates is in Track under its (node id, offset) with the value of
\* the node, and the other nodes of the heap are as they were.
C26_MoveDrainsReachableNodes ==
    [][(/\ heap_call'.op = "move_node_to_store"
        /\ heap_call'.res = "Ok"
        /\ heap_call'.to \in DOMAIN heap) =>
          LET moved == ReachableFrom(heap, {heap_call'.to}, {})
          IN /\ moved \subseteq DOMAIN heap
             /\ moved \cap DOMAIN heap' = {}
             /\ \A m \in moved :
                   /\ \A offset \in node_to_substates(heap[m].root) :
                         Sid(offset, m) \in track_substates'
                   /\ m \in DOMAIN track_nodes'
                   /\ track_nodes'[m] = heap[m].root
             /\ DOMAIN heap' = DOMAIN heap \ moved
             /\ \A m \in DOMAIN heap' : heap'[m] = heap[m]]_vars

\* C26 witness: a move took a node with a child out of the heap and left
\* another node in it.
C26_MovedWithChild ==
    /\ heap_call.op = "move_node_to_store"
    /\ heap_call.res = "Ok"
    /\ Cardinality(heap_call.moved) = 2
    /\ heap # EmptyMap

\* C27: add_child_nodes(ids, parent) returns RENodeNotOwned, naming an id
\* the heap does not hold, and leaves the heap as it was when an id of ids or
\* parent is not in the heap; otherwise it returns Ok, the child_nodes of
\* parent are the previous ones united with ids, and the heap holds the same
\* ids and, but for the children of parent, the same nodes.
C27_AddChildNodesChecked ==
    [][heap_call'.op = "add_child_nodes" =>
          LET c == heap_call'
          IN IF c.node_ids \subseteq DOMAIN heap /\ c.to \in DOMAIN heap
             THEN /\ c.res = "Ok"
                  /\ DOMAIN heap' = DOMAIN heap
                  /\ heap'[c.to].child_nodes = heap[c.to].child_nodes \cup c.node_ids
                  /\ heap'[c.to].root = heap[c.to].root
                  /\ \A m \in DOMAIN heap \ {c.to} : heap'[m] = heap[m]
             ELSE /\ c.res = "RENodeNotOwned"
                  /\ c.node_id \in (c.node_ids \cup {c.to}) \ DOMAIN heap
                  /\ heap' = heap]_vars

\* C27 witness: a call naming a node the heap does not hold was refused.
C27_AbsentChildRefused ==
    /\ heap_call.op = "add_child_nodes"
    /\ heap_call.res = "RENodeNotOwned"
    /\ heap_call.to \in DOMAIN heap
    /\ heap_call.node_ids \cap DOMAIN heap # {}

\* The nodes of `nodes` whose child_nodes hold the id.
ParentsOf(nodes, id) == {p \in DOMAIN nodes : id \in nodes[p].child_nodes}

\* C28: the child relation of the heap is a forest: a node id is in the
\* child_nodes of at most one node, and no node is reached from its own
\* child_nodes.
C28_ChildRelationIsForest ==
    /\ \A id \in HeapIds : Cardinality(ParentsOf(heap, id)) <= 1
    /\ \A n \in DOMAIN heap : n \notin ReachableFrom(heap, heap[n].child_nodes, {})

\* -------------------------------------------------- binary representations
\* A u32 is written as its two 16-bit halves: U32(hi, lo) is hi * 2^16 + lo.
U32(hi, lo) == <<hi, lo>>

\* The u32 values and 32-byte hashes converted: the byte boundaries of a u32
\* and one value whose four bytes differ (0x01020304).
U32Values ==
    {U32(0, 0), U32(0, 1), U32(0, 255), U32(0, 256), U32(0, 65535), U32(1, 0),
     U32(256, 0), U32(258, 772), U32(65535, 65535)}
HashValues ==
    {[i \in 1..32 |-> b] : b \in {0, 255}} \cup {[i \in 1..32 |-> (7 * i) % 256]}

\* The slices parsed: every length up to MaxSliceLen and the lengths around 36.
MaxSliceLen == 5
SliceLens == 0..MaxSliceLen \cup {35, 36, 37}
Slices == {[i \in 1..n |-> (s + 3 * i) % 256] : n \in SliceLens, s \in {0, 100, 250}}

u32_from_be_bytes(bytes) == U32(bytes[2] + 256 * bytes[1], bytes[4] + 256 * bytes[3])

\* u32::to_le_bytes / u32::from_le_bytes
u32_to_le_bytes(n) == <<n[2] % 256, n[2] \div 256, n[1] % 256, n[1] \div 256>>

u32_from_le_bytes(bytes) == U32(bytes[3] + 256 * bytes[4], bytes[1] + 256 * bytes[2])

ParseOk(value) == [ok |-> TRUE, value |-> value]
InvalidLength(n) == [ok |-> FALSE, value |-> <<"InvalidLength", n>>]

\* Bucket::to_vec / TryFrom<&[u8]> for Bucket: Bucket(u32)
bucket_to_vec(bucket) == u32_to_le_bytes(bucket)

bucket_try_from(slice) ==
    IF Len(slice) = 4 THEN ParseOk(u32_from_le_bytes([i \in 1..4 |-> slice[i]]))
    ELSE InvalidLength(Len(slice))

\* Vault::to_vec / TryFrom<&[u8]> for Vault: Vault([u8; 36])
vault_to_vec(vault) == [i \in 1..Len(vault) |-> vault[i]]

vault_try_from(slice) ==
    IF Len(slice) = 36 THEN ParseOk([i \in 1..36 |-> slice[i]])
    ELSE InvalidLength(Len(slice))

\* KeyValueStore::to_vec / TryFrom<&[u8]> for KeyValueStore: id (Hash, u32)
kv_store_to_vec(id) == id[1] \o u32_to_le_bytes(id[2])

kv_store_try_from(slice) ==
    IF Len(slice) = 36
    THEN ParseOk(<<[i \in 1..32 |-> SubSeq(slice, 1, 32)[i]],
                   u32_from_le_bytes([i \in 1..4 |-> SubSeq(slice, 33, 36)[i]])>>)
    ELSE InvalidLength(Len(slice))

ConvertedTypes == {"Bucket", "Vault", "KeyValueStore"}

\* The values of a type that are converted to bytes.
ValuesOf(type) ==
    CASE type = "Bucket" -> U32Values
      [] type = "Vault" -> {h \o u32_to_le_bytes(n) : h \in HashValues, n \in {U32(0, 0), U32(258, 772)}}
      [] OTHER -> HashValues \X U32Values

to_vec(type, value) ==
    CASE type = "Bucket" -> bucket_to_vec(value)
      [] type = "Vault" -> vault_to_vec(value)
      [] OTHER -> kv_store_to_vec(value)

try_from(type, slice) ==
    CASE type = "Bucket" -> bucket_try_from(slice)
      [] type = "Vault" -> vault_try_from(slice)
      [] OTHER -> kv_store_try_from(slice)

NoValue == <<"None">>

\* What the last conversion was given and what it made.
Conversion(op, type, value, bytes, parsed) ==
    [op |-> op, type |-> type, value |-> value, bytes |-> bytes, parsed |-> parsed]

\* x.to_vec() of a bucket, vault or key-value store x
ToVec ==
    /\ \E type \in ConvertedTypes :
          \E value \in ValuesOf(type) :
             conversion' = Conversion("to_vec", type, value, to_vec(type, value), NoValue)
    /\ UNCHANGED <<call_frames, id_allocator, container_locks, track_locks, track_substates,
                   track_nodes, err, failed_call, completed_call, fee_reserve, fee_table,
                   substate_store, heap, heap_call, id_generators, generator_calls,
                   move_stack, kv_store, parser, drop_call>>

\* T::try_from(slice) of the bytes the last to_vec made
TryFromVec ==
    /\ conversion.op = "to_vec"
    /\ conversion' = Conversion("try_from", conversion.type, conversion.value,
                                conversion.bytes,
                                try_from(conversion.type, conversion.bytes))
    /\ UNCHANGED <<call_frames, id_allocator, container_locks, track_locks, track_substates,
                   track_nodes, err, failed_call, completed_call, fee_reserve, fee_table,
                   substate_store, heap, heap_call, id_generators, generator_calls,
                   move_stack, kv_store, parser, drop_call>>

\* T::try_from(slice) of any slice
TryFromSlice ==
    /\ \E type \in ConvertedTypes, slice \in Slices :
          conversion' = Conversion("try_from", type, NoValue, slice, try_from(type, slice))
    /\ UNCHANGED <<call_frames, id_allocator, container_locks, track_locks, track_substates,
                   track_nodes, err, failed_call, completed_call, fee_reserve, fee_table,
                   substate_store, heap, heap_call, id_generators, generator_calls,
                   move_stack, kv_store, parser, drop_call>>

BytesNext ==
    \/ ToVec
    \/ TryFromVec
    \/ TryFromSlice

BytesSpec == Init /\ [][BytesNext]_vars

\* The length of the binary representation of a type.
EncodedLen(type) == IF type = "Bucket" THEN 4 ELSE 36

\* C29: try_from of the bytes x.to_vec() made yields x, for a Bucket, a Vault
\* and a KeyValueStore; try_from of a slice of a length n other than the
\* length of the type (4 for Bucket, 36 for the others) fails with
\* InvalidLength(n), and a slice of that length is parsed.
C29_BytesRoundTrip ==
    conversion.op = "try_from" =>
        /\ conversion.value # NoValue =>
              /\ Len(conversion.bytes) = EncodedLen(conversion.type)
              /\ conversion.parsed = [ok |-> TRUE, value |-> conversion.value]
        /\ Len(conversion.bytes) # EncodedLen(conversion.type) =>
              conversion.parsed =
                  [ok |-> FALSE, value |-> <<"InvalidLength", Len(conversion.bytes)>>]
        /\ Len(conversion.bytes) = EncodedLen(conversion.type) => conversion.parsed.ok

\* C29 witness: a key-value store id whose counter has four different bytes
\* came back from its bytes.
C29_KeyValueStoreCameBack ==
    /\ conversion.op = "try_from"
    /\ conversion.type = "KeyValueStore"
    /\ conversion.value # NoValue
    /\ conversion.value[2] = U32(258, 772)
    /\ conversion.parsed.ok

\* ------------------------------------------------------ SubstateIdGenerator
MaxCalls == 5           \* calls of next explored on one generator
TxHashes == {"tx1", "tx2"}

\* The counts the explored generators start from: a new generator, and one
\* that has issued all but the last three ids a u32 can count.
StartCounts == {U32(0, 0), U32(65535, 65533)}

\* n + 1 for a number written with 16-bit lower half (the upper half unbounded).
Succ(n) == IF n[2] = 65535 THEN <<n[1] + 1, 0>> ELSE <<n[1], n[2] + 1>>

\* `self.count + 1` on a u32: the sums the builds can produce.  At u32::MAX a
\* build with overflow checks panics, one without wraps to 0.
u32_add_one(n) ==
    IF n = U32(65535, 65535) THEN {"Panic", U32(0, 0)} ELSE {Succ(n)}

\* SubstateIdGenerator::new(tx_hash), after `start` calls of next.
SubstateIdGenerator(tx_hash, start) == [tx_hash |-> tx_hash, count |-> start]

PhysicalSubstateId(tx_hash, value) == <<tx_hash, value>>

\* What is remembered of the calls of next on a generator: how many there
\* were, how many of them were explored, and what the last one returned.
GeneratorCalls(calls, made, res, last) ==
    [calls |-> calls, made |-> made, res |-> res, last |-> last]

GeneratorInit ==
    /\ KernelFields(ZeroFeeTable, 0)
    /\ HeapNew
    /\ NoConversion
    /\ NoMove
    /\ NoKvStore
    /\ NoParser
    /\ NoDrop
    /\ \E hashes \in [1..2 -> TxHashes], starts \in [1..2 -> StartCounts] :
          /\ id_generators = [g \in 1..2 |-> SubstateIdGenerator(hashes[g], starts[g])]
          /\ generator_calls = [g \in 1..2 |-> GeneratorCalls(starts[g], 0, "none", NoValue)]

\* SubstateIdGenerator::next
GeneratorNext ==
    /\ \E g \in 1..2 :
          LET self == id_generators[g]
              value == self.count
              log == generator_calls[g]
          IN /\ log.res # "Panic"
             /\ log.made < MaxCalls
             /\ \E sum \in u32_add_one(self.count) :
                   IF sum = "Panic"
                   THEN /\ generator_calls' =
                              [generator_calls EXCEPT ![g] =
                                  GeneratorCalls(log.calls, log.made + 1, "Panic", NoValue)]
                        /\ UNCHANGED id_generators
                   ELSE /\ id_generators' = [id_generators EXCEPT ![g].count = sum]
                        /\ generator_calls' =
                              [generator_calls EXCEPT ![g] =
                                  GeneratorCalls(Succ(log.calls), log.made + 1, "Ok",
                                                 PhysicalSubstateId(self.tx_hash, value))]
    /\ UNCHANGED <<call_frames, id_allocator, container_locks, track_locks, track_substates,
                   track_nodes, err, failed_call, completed_call, fee_reserve, fee_table,
                   substate_store, heap, heap_call, conversion,
                   move_stack, kv_store, parser, drop_call>>

GeneratorSpec == GeneratorInit /\ [][GeneratorNext]_vars

\* C30: the n-th call of next (from 0) returns PhysicalSubstateId(tx_hash, n):
\* every call returns, and after a call that returned the id with index n
\* the generator has been called n + 1 times, so that no id is issued twice.
C30_NthCallReturnsNthId ==
    \A g \in DOMAIN generator_calls :
        /\ generator_calls[g].res # "Panic"
        /\ generator_calls[g].res = "Ok" =>
              /\ generator_calls[g].last[1] = id_generators[g].tx_hash
              /\ generator_calls[g].calls = Succ(generator_calls[g].last[2])

\* C37: a move_node_to_store that returned RENodeNotOwned left the heap and
\* Track as they were before the call: no node removed, no substate inserted.
C37_FailedMoveChangesNothing ==
    [][(heap_call'.op = "move_node_to_store" /\ heap_call'.res = "RENodeNotOwned") =>
          /\ heap' = heap
          /\ track_substates' = track_substates
          /\ track_nodes' = track_nodes]_vars

\* ---------------------------------------------- Heap: the move, step by step
\* Every content of a heap over HeapIds: each id absent, or present with any
\* set of child ids.
HeapContents ==
    {[id \in present |-> [HeapRENode(Kind(id)) EXCEPT !.child_nodes = children[id]]] :
        present \in SUBSET HeapIds, children \in [HeapIds -> SUBSET HeapIds]}

\* The call of move_node_to_store that is running, with the heap and Track
\* it was made on.
MoveRunning(node_id, nodes, substates, values) ==
    [op |-> "move_node_to_store", node_ids |-> {}, to |-> node_id, res |-> "Running",
     node_id |-> NoNode, moved |-> {},
     before |-> Moved("Running", NoNode, nodes, substates, values)]

\* A heap of any content, on which one move to the store is made.
MoveInit ==
    /\ KernelFields(ZeroFeeTable, 0)
    /\ NoGenerator
    /\ NoConversion
    /\ NoKvStore
    /\ NoParser
    /\ NoDrop
    /\ heap \in HeapContents
    /\ heap_call = NoCall
    /\ move_stack = <<>>

\* The call of Heap::move_node_to_store(track, node_id): the node is the one
\* id to visit.
MoveCall ==
    /\ heap_call = NoCall
    /\ \E node_id \in HeapIds :
          /\ heap_call' = MoveRunning(node_id, heap, track_substates, track_nodes)
          /\ move_stack' = <<{node_id}>>
    /\ UNCHANGED <<call_frames, id_allocator, container_locks, track_locks, track_substates,
                   track_nodes, err, failed_call, completed_call, fee_reserve, fee_table,
                   substate_store, heap, id_generators, generator_calls, conversion,
                   kv_store, parser, drop_call>>

MoveVisitRetrying ==
    /\ move_stack # <<>>
    /\ \E node_id \in move_stack[Len(move_stack)] \cap DOMAIN heap :
          LET node == heap[node_id]
              rest == [move_stack EXCEPT ![Len(move_stack)] = @ \ {node_id}]
          IN /\ heap' = Without(heap, {node_id})
             /\ track_substates' =
                   track_substates
                       \cup {Sid(offset, node_id) : offset \in node_to_substates(node.root)}
             /\ track_nodes' = (node_id :> node.root) @@ track_nodes
             /\ move_stack' = Append(rest, node.child_nodes)
             /\ UNCHANGED heap_call
    /\ UNCHANGED <<call_frames, id_allocator, container_locks, track_locks, err, failed_call,
                   completed_call, fee_reserve, fee_table, substate_store, id_generators,
                   generator_calls, conversion, kv_store, parser, drop_call>>

\* One turn of the loop of move_nodes_to_store: the next id of the set, in
\* the order of the HashSet, goes through move_node_to_store, which removes
\* the node, inserts its substates and then visits its child_nodes; an id that
\* is not in the heap ends every pending loop with RENodeNotOwned.
MoveVisit ==
    /\ move_stack # <<>>
    /\ \E node_id \in move_stack[Len(move_stack)] :
          IF node_id \notin DOMAIN heap
          THEN /\ heap_call' = [heap_call EXCEPT !.res = "RENodeNotOwned",
                                                 !.node_id = node_id]
               /\ move_stack' = <<>>
               /\ UNCHANGED <<heap, track_substates, track_nodes>>
          ELSE LET node == heap[node_id]
                   rest == [move_stack EXCEPT ![Len(move_stack)] = @ \ {node_id}]
               IN /\ heap' = Without(heap, {node_id})
                  /\ track_substates' =
                        track_substates
                            \cup {Sid(offset, node_id) :
                                     offset \in node_to_substates(node.root)}
                  /\ track_nodes' = (node_id :> node.root) @@ track_nodes
                  /\ move_stack' = Append(rest, node.child_nodes)
                  /\ UNCHANGED heap_call
    /\ UNCHANGED <<call_frames, id_allocator, container_locks, track_locks, err, failed_call,
                   completed_call, fee_reserve, fee_table, substate_store, id_generators,
                   generator_calls, conversion, kv_store, parser, drop_call>>

\* The loop of move_nodes_to_store has visited its set: Ok(()) to the caller.
MoveReturn ==
    /\ move_stack # <<>>
    /\ move_stack[Len(move_stack)] = {}
    /\ move_stack' = SubSeq(move_stack, 1, Len(move_stack) - 1)
    /\ heap_call' = IF Len(move_stack) = 1 THEN [heap_call EXCEPT !.res = "Ok"]
                    ELSE heap_call
    /\ UNCHANGED <<call_frames, id_allocator, container_locks, track_locks, track_substates,
                   track_nodes, err, failed_call, completed_call, fee_reserve, fee_table,
                   substate_store, heap, id_generators, generator_calls, conversion,
                   kv_store, parser, drop_call>>

MoveNext ==
    \/ MoveCall
    \/ MoveVisit
    \/ MoveReturn

\* The call runs on: a loop that can take a turn, or return, does.
MoveSpec == MoveInit /\ [][MoveNext]_vars /\ WF_vars(MoveVisit) /\ WF_vars(MoveReturn)

\* The move returned.
MoveDone == heap_call.op = "move_node_to_store" /\ heap_call.res \in {"Ok", "RENodeNotOwned"}

\* C38: a move_node_to_store on a heap of any content, cycles and shared
\* children included, comes to an end and returns Ok or RENodeNotOwned; no
\* loop is then pending, and the heap and Track are left as one of the
\* outcomes of Heap::move_node_to_store.
C38_MoveTerminates ==
    /\ (heap_call.op = "move_node_to_store") ~> (MoveDone /\ move_stack = <<>>)
    /\ [](MoveDone =>
            \E m \in move_node_to_store(heap_call.before.nodes, heap_call.before.substates,
                                        heap_call.before.values, heap_call.to) :
               /\ m.res = heap_call.res
               /\ m.nodes = heap
               /\ m.substates = track_substates
               /\ m.values = track_nodes)
    /\ [](Len(move_stack) <= Cardinality(HeapIds) + 1)

\* C38 witness: the move of a node that is its own child returned.
C38_SelfChildMoveReturned ==
    /\ MoveDone
    /\ heap_call.to \in DOMAIN heap_call.before.nodes
    /\ heap_call.to \in heap_call.before.nodes[heap_call.to].child_nodes

\* C33: after an invoke_function or invoke_method that returned an error
\* before it pushed the child frame, the caller owns every node it owned
\* before the call, the nodes of the arguments and a Consumed receiver included.
C33_FailedInvokeKeepsNodes ==
    (failed_call.op \in InvokeOps /\ Len(call_frames) = Len(failed_call.frames_before)) =>
        DOMAIN FailedCaller.owned \subseteq DOMAIN CurrentFrame.owned

\* The value names a node of one of the kinds.
NamesKind(value, kinds) == \E id \in value.node_ids : Kind(id) \in kinds

\* C34: an invocation whose arguments name a vault or a key-value store never
\* pushes a frame: unless the depth or fee check that precedes refused it, it
\* fails with KeyValueStoreNotAllowed or VaultNotAllowed, and in every case
\* no node was taken from the caller and no lock acquired.  A callee whose
\* return value names a key-value store fails with KeyValueStoreNotAllowed
\* with every frame and every lock as before.
C34_StoresRefusedBeforeTake ==
    /\ (completed_call.op \in InvokeOps) =>
           ~NamesKind(completed_call.input, {"Vault", "KeyValueStore"})
    /\ (failed_call.op \in InvokeOps
            /\ NamesKind(failed_call.input, {"Vault", "KeyValueStore"})) =>
           /\ err \in {"MaxCallDepthLimitReached", "CostingError",
                       IF NamesKind(failed_call.input, {"KeyValueStore"})
                       THEN "KeyValueStoreNotAllowed" ELSE "VaultNotAllowed"}
           /\ call_frames = failed_call.frames_before
           /\ track_locks = failed_call.locks_before
    /\ (completed_call.op = "return") => ~NamesKind(completed_call.output, {"KeyValueStore"})
    /\ (failed_call.op = "return" /\ NamesKind(failed_call.input, {"KeyValueStore"})) =>
           /\ err = "KeyValueStoreNotAllowed"
           /\ call_frames = failed_call.frames_before
           /\ track_locks = failed_call.locks_before

\* C34 witness: an invocation that named a vault the caller owns was refused.
C34_OwnedVaultRefused ==
    /\ err = "VaultNotAllowed"
    /\ failed_call.op \in InvokeOps
    /\ \E id \in failed_call.input.node_ids :
          Kind(id) = "Vault" /\ id \in DOMAIN CurrentFrame.owned

\* C35: a node_create that returned Ok (it issued an id, in the frame that
\* called it) leaves the frame with a node id it did not own before: no node
\* the frame owned is overwritten, for every node kind, the worktop included.
C35_NodeCreateNeverOverwrites ==
    [][(err' = "none" /\ id_allocator'["Created"] # id_allocator["Created"]
            /\ Len(call_frames') = Len(call_frames)) =>
          DOMAIN CurrentFrame'.owned \ DOMAIN CurrentFrame.owned # {}]_vars

\* The frame below the top frame: the caller of the running callee.
CallerFrame == call_frames[Len(call_frames) - 1]

\* C36: a frame that runs an auth-zone method names the auth zone of the
\* frame that invoked it; a step of it that ends without error and changes an
\* auth zone appends one proof to the caller's auth zone and leaves its own as it was; and when it
\* returns, the caller's auth zone is what it was before the return, so the
\* proofs pushed during the call are still there.
C36_AuthZoneOfCaller ==
    /\ [](\A i \in DOMAIN call_frames :
             call_frames[i].exec.kind = "AuthZone" =>
                 /\ i > 1
                 /\ call_frames[i].exec.frame_id + 1 = i - 1)
    /\ [][(err' = "none"
             /\ Len(call_frames') = Len(call_frames)
             /\ CurrentFrame.exec.kind = "AuthZone"
             /\ \E i \in DOMAIN call_frames :
                   call_frames'[i].auth_zone # call_frames[i].auth_zone) =>
               /\ CurrentFrame'.auth_zone = CurrentFrame.auth_zone
               /\ Len(CallerFrame'.auth_zone) = Len(CallerFrame.auth_zone) + 1
               /\ SubSeq(CallerFrame'.auth_zone, 1, Len(CallerFrame.auth_zone))
                     = CallerFrame.auth_zone
               /\ \A i \in 1..(Len(call_frames) - 2) :
                     call_frames'[i].auth_zone = call_frames[i].auth_zone]_vars
    /\ [][(Len(call_frames') = Len(call_frames) - 1
             /\ CurrentFrame.exec.kind = "AuthZone") =>
               CurrentFrame'.auth_zone = CallerFrame.auth_zone]_vars

\* C36 witness: an auth-zone method invoked by the root frame returned and
\* the proof it pushed is on the root frame's auth zone.
C36_PushedProofSurvivedReturn ==
    /\ err = "none"
    /\ Len(call_frames) = 1
    /\ completed_call.op = "return"
    /\ call_frames[1].auth_zone # <<>>


\* --------------------------------------------------- RENode::drop_values
MaxDropValues == 4

\* The source bucket of the proofs handed to drop_values.
DropSource == <<"Bucket", 1>>

\* Root nodes of the vector: a proof, an empty worktop, a worktop that holds
\* resources, a bucket and a vault.
DropNodes ==
    {Node("Proof", 0, FALSE, DropSource), Node("Worktop", 0, FALSE, NoNode),
     Node("Worktop", 1, FALSE, NoNode), Node("Bucket", 1, FALSE, NoNode),
     Node("Vault", 1, FALSE, NoNode)}

DropVectors == UNION {[1..n -> DropNodes] : n \in 0..MaxDropValues}

\* The container locks when the call is made: one per proof of the vector.
DropLocks(values) ==
    [b \in {DropSource} |-> Cardinality({i \in DOMAIN values : values[i].kind = "Proof"})]

\* drop_values in progress: the vector, the index the first loop is at, the
\* worktops pushed aside and the index the second loop is at (both as
\* indices of the vector), the values whose drop was run so far, in order.
Dropping(values) ==
    [op |-> "drop_values", values |-> values, i |-> 1, worktops |-> <<>>, w |-> 1,
     tried |-> <<>>, locks_before |-> DropLocks(values), clocks |-> DropLocks(values),
     res |-> "Running"]

DropInit ==
    /\ KernelFields(ZeroFeeTable, 0)
    /\ HeapNew
    /\ NoGenerator
    /\ NoConversion
    /\ NoMove
    /\ NoKvStore
    /\ NoParser
    /\ NoDrop

\* RENode::drop_values(values) is called.
DropCall ==
    /\ drop_call = NoCall
    /\ \E values \in DropVectors : drop_call' = Dropping(values)
    /\ UNCHANGED <<kernel_vars, heap, heap_call, id_generators, generator_calls, conversion,
                   move_stack, kv_store, parser>>

DropRunning == drop_call # NoCall /\ drop_call.res = "Running"

DropValueAtOnce ==
    /\ DropRunning
    /\ drop_call.i <= Len(drop_call.values)
    /\ LET value == drop_call.values[drop_call.i]
           tried == [drop_call EXCEPT !.tried = Append(@, drop_call.i)]
       IN drop_call' =
             IF try_drop(value) # "Ok" THEN [tried EXCEPT !.res = try_drop(value)]
             ELSE [tried EXCEPT !.i = @ + 1,
                                !.clocks = IF value.kind = "Proof"
                                           THEN proof_drop(value, @) ELSE @]
    /\ UNCHANGED <<kernel_vars, heap, heap_call, id_generators, generator_calls, conversion,
                   move_stack, kv_store, parser>>

\* One turn of `for value in values`: a worktop is pushed on `worktops`, any
\* other value goes through try_drop, whose failure ends the call.
DropValue ==
    /\ DropRunning
    /\ drop_call.i <= Len(drop_call.values)
    /\ LET value == drop_call.values[drop_call.i]
           tried == [drop_call EXCEPT !.tried = Append(@, drop_call.i)]
       IN drop_call' =
             IF value.kind = "Worktop"
             THEN [drop_call EXCEPT !.worktops = Append(@, drop_call.i), !.i = @ + 1]
             ELSE IF try_drop(value) # "Ok" THEN [tried EXCEPT !.res = try_drop(value)]
             ELSE [tried EXCEPT !.i = @ + 1,
                                !.clocks = IF value.kind = "Proof"
                                           THEN proof_drop(value, @) ELSE @]
    /\ UNCHANGED <<kernel_vars, heap, heap_call, id_generators, generator_calls, conversion,
                   move_stack, kv_store, parser>>

\* One turn of `for worktop in worktops`: worktop.drop()?
DropWorktop ==
    /\ DropRunning
    /\ drop_call.i > Len(drop_call.values)
    /\ drop_call.w <= Len(drop_call.worktops)
    /\ LET j == drop_call.worktops[drop_call.w]
           tried == [drop_call EXCEPT !.tried = Append(@, j)]
       IN drop_call' =
             IF worktop_drop(drop_call.values[j]) # "Ok"
             THEN [tried EXCEPT !.res = worktop_drop(drop_call.values[j])]
             ELSE [tried EXCEPT !.w = @ + 1]
    /\ UNCHANGED <<kernel_vars, heap, heap_call, id_generators, generator_calls, conversion,
                   move_stack, kv_store, parser>>

\* Both loops are through: Ok(()).
DropReturn ==
    /\ DropRunning
    /\ drop_call.i > Len(drop_call.values)
    /\ drop_call.w > Len(drop_call.worktops)
    /\ drop_call' = [drop_call EXCEPT !.res = "Ok"]
    /\ UNCHANGED <<kernel_vars, heap, heap_call, id_generators, generator_calls, conversion,
                   move_stack, kv_store, parser>>

DropNext ==
    \/ DropCall
    \/ DropValue
    \/ DropWorktop
    \/ DropReturn

DropSpec == DropInit /\ [][DropNext]_vars

\* The indices of the vector whose value is not a worktop.
NonWorktops(values) == {j \in DOMAIN values : values[j].kind # "Worktop"}

\* C39: during and after a drop_values, no value that is not a worktop has
\* its drop run after a worktop's, and a worktop's drop runs only when every
\* other value has been dropped; every drop run but the last succeeded, and
\* the call failed exactly when the last one did not, with that failure, the
\* values after it never dropped; it returned Ok only when every value of the
\* vector was dropped, each once, and none fails to drop.  The result and the
\* locks released are those of the function the kernel applies.
C39_DropOrderAndFirstFailure ==
    (drop_call # NoCall) =>
        LET values == drop_call.values
            tried == drop_call.tried
            res == drop_call.res
        IN /\ \A a, b \in DOMAIN tried :
                 (a < b /\ values[tried[a]].kind = "Worktop") =>
                     values[tried[b]].kind = "Worktop"
           /\ \A a \in DOMAIN tried :
                 values[tried[a]].kind = "Worktop" =>
                     NonWorktops(values) \subseteq {tried[b] : b \in 1..(a - 1)}
           /\ \A a, b \in DOMAIN tried : a # b => tried[a] # tried[b]
           /\ \A a \in 1..(Len(tried) - 1) : try_drop(values[tried[a]]) = "Ok"
           /\ (res \notin {"Running", "Ok"}) <=>
                 (tried # <<>> /\ try_drop(values[tried[Len(tried)]]) # "Ok")
           /\ (res \notin {"Running", "Ok"}) => res = try_drop(values[tried[Len(tried)]])
           /\ (res = "Ok") =>
                 /\ \A j \in DOMAIN values : try_drop(values[j]) = "Ok"
                 /\ {tried[a] : a \in DOMAIN tried} = DOMAIN values
           /\ (res # "Running") =>
                 /\ drop_values(values, drop_call.locks_before).res = res
                 /\ drop_values(values, drop_call.locks_before).clocks = drop_call.clocks

\* C39 witness: a call that failed on a value that is not a worktop, with a
\* worktop before it in the vector and a droppable value after it, neither
\* of which was dropped.
C39_FailedBeforeWorktopAndRest ==
    /\ drop_call # NoCall
    /\ drop_call.res \notin {"Running", "Ok"}
    /\ LET values == drop_call.values
           tried == drop_call.tried
           last == tried[Len(tried)]
       IN /\ values[last].kind # "Worktop"
          /\ \E j \in 1..(last - 1) : values[j].kind = "Worktop"
          /\ \E j \in (last + 1)..Len(values) : try_drop(values[j]) = "Ok"
          /\ Len(tried) > 1

\* ---------------------------------------------------------- KeyValueStore
MaxKey == 1
MaxKvValue == 1
MaxLockHandles == 4

KvKeys == 0..MaxKey
KvValues == 0..MaxKvValue
NoEntry == [some |-> FALSE, raw |-> <<>>]

\* scrypto_encode / scrypto_decode of a key or a value: the type id, then the byte.
scrypto_encode(v) == <<"TYPE_U8", v>>
scrypto_decode(bytes) == bytes[2]

\* KeyValueStoreEntrySubstate(Option<Vec<u8>>) and its encoding: the variant
\* of the Option, then the bytes of Some.
Entry(raw) == [some |-> TRUE, raw |-> raw]
encode_substate(entry) == IF entry.some THEN <<1>> \o entry.raw ELSE <<0>>
decode_substate(bytes) == IF bytes[1] = 1 THEN Entry(SubSeq(bytes, 2, Len(bytes))) ELSE NoEntry

\* SubstateOffset::KeyValueStore(KeyValueStoreOffset::Entry(scrypto_encode(key)))
EntryOffsets == {scrypto_encode(k) : k \in KvKeys}

\* sys_lock_substate: any number of read locks on a substate, a write lock
\* alone; the handle is the next integer.
sys_lock_substate(store, offset, mutable) ==
    LET on == {h \in DOMAIN store.held : store.held[h].offset = offset}
    IN IF (mutable /\ on # {}) \/ (\E h \in on : store.held[h].mutable)
       THEN [res |-> "Reentrancy", store |-> store, handle |-> 0]
       ELSE [res |-> "Ok", handle |-> store.next_handle + 1,
             store |-> [store EXCEPT
                          !.held = ((store.next_handle + 1) :>
                                       [offset |-> offset, mutable |-> mutable]) @@ @,
                          !.next_handle = @ + 1]]

\* sys_read: the bytes of the locked substate; an entry never written reads as None.
sys_read(store, handle) == encode_substate(store.entries[store.held[handle].offset])

\* sys_write: the locked substate becomes the decoded bytes.
sys_write(store, handle, bytes) ==
    IF ~store.held[handle].mutable THEN [res |-> "LockNotMutable", store |-> store]
    ELSE [res |-> "Ok",
          store |-> [store EXCEPT !.entries[store.held[handle].offset] =
                                       decode_substate(bytes)]]

sys_drop_lock(store, handle) == [store EXCEPT !.held = Without(@, {handle})]

\* Option<V>: None, Some(v)
None == <<>>
Some(v) == <<v>>

\* What is remembered of a call: its arguments (the key and the value, when
\* it has one), the locks held before it, the lock it took, whether it
\* returned, and the Option a get returned.
KvCall(op, key, value, store, locked) ==
    [op |-> op, key |-> key, value |-> value, held_before |-> store.held,
     locked |-> locked, res |-> "Ok", out |-> None]

\* KeyValueStore::new: no entry written, no lock held; `latest` is the value
\* last inserted under each key.
KvNew ==
    [entries |-> [o \in EntryOffsets |-> NoEntry], held |-> EmptyMap, next_handle |-> 0,
     latest |-> [k \in KvKeys |-> None], last |-> NoCall, panicked |-> FALSE]

KvInit ==
    /\ KernelFields(ZeroFeeTable, 0)
    /\ HeapNew
    /\ NoGenerator
    /\ NoConversion
    /\ NoMove
    /\ NoParser
    /\ NoDrop
    /\ kv_store = KvNew

KvUsable == kv_store # NoCall /\ ~kv_store.panicked /\ kv_store.next_handle < MaxLockHandles

\* `.unwrap()` on the Err of a system call.
KvPanic(call) == [kv_store EXCEPT !.panicked = TRUE, !.last = call]

KvInsertKeepsLock ==
    /\ KvUsable
    /\ \E key \in KvKeys, value \in KvValues :
          LET offset == scrypto_encode(key)
              lock == sys_lock_substate(kv_store, offset, TRUE)
              substate == Entry(scrypto_encode(value))
              written == sys_write(lock.store, lock.handle, encode_substate(substate))
              call == KvCall("insert", Some(key), Some(value), kv_store, <<offset, TRUE>>)
          IN kv_store' =
                IF lock.res # "Ok" THEN KvPanic([call EXCEPT !.res = "Panic"])
                ELSE [written.store EXCEPT !.last = call, !.latest[key] = Some(value)]
    /\ UNCHANGED <<kernel_vars, heap, heap_call, id_generators, generator_calls, conversion,
                   move_stack, parser, drop_call>>

\* KeyValueStore::insert
KvInsert ==
    /\ KvUsable
    /\ \E key \in KvKeys, value \in KvValues :
          LET offset == scrypto_encode(key)
              lock == sys_lock_substate(kv_store, offset, TRUE)
              substate == Entry(scrypto_encode(value))
              written == sys_write(lock.store, lock.handle, encode_substate(substate))
              dropped == sys_drop_lock(written.store, lock.handle)
              call == KvCall("insert", Some(key), Some(value), kv_store, <<offset, TRUE>>)
          IN kv_store' =
                IF lock.res # "Ok" \/ written.res # "Ok"
                THEN KvPanic([call EXCEPT !.res = "Panic"])
                ELSE [dropped EXCEPT !.last = call, !.latest[key] = Some(value)]
    /\ UNCHANGED <<kernel_vars, heap, heap_call, id_generators, generator_calls, conversion,
                   move_stack, parser, drop_call>>

\* KeyValueStore::get (mutable = FALSE) and get_mut (mutable = TRUE): the
\* lock of an entry that is None is dropped, the lock of an entry that is
\* Some stays with the DataRef / DataRefMut that is returned.
KvGet ==
    /\ KvUsable
    /\ \E key \in KvKeys, mutable \in BOOLEAN :
          LET offset == scrypto_encode(key)
              lock == sys_lock_substate(kv_store, offset, mutable)
              value == decode_substate(sys_read(lock.store, lock.handle))
              call == KvCall(IF mutable THEN "get_mut" ELSE "get", Some(key), None, kv_store,
                             <<offset, mutable>>)
          IN kv_store' =
                IF lock.res # "Ok" THEN KvPanic([call EXCEPT !.res = "Panic"])
                ELSE IF ~value.some
                THEN [sys_drop_lock(lock.store, lock.handle) EXCEPT !.last = call]
                ELSE [lock.store EXCEPT
                         !.last = [call EXCEPT !.out = Some(scrypto_decode(value.raw))]]
    /\ UNCHANGED <<kernel_vars, heap, heap_call, id_generators, generator_calls, conversion,
                   move_stack, parser, drop_call>>

\* The DataRef or DataRefMut of an earlier get goes out of scope: its lock is dropped.
KvDropRef ==
    /\ kv_store # NoCall
    /\ ~kv_store.panicked
    /\ \E handle \in DOMAIN kv_store.held :
          kv_store' = [sys_drop_lock(kv_store, handle) EXCEPT
                          !.last = KvCall("drop_ref", None, None, kv_store,
                                          <<kv_store.held[handle].offset,
                                            kv_store.held[handle].mutable>>)]
    /\ UNCHANGED <<kernel_vars, heap, heap_call, id_generators, generator_calls, conversion,
                   move_stack, parser, drop_call>>

KvNext ==
    \/ KvInsert
    \/ KvGet
    \/ KvDropRef

KvSpec == KvInit /\ [][KvNext]_vars

\* C31: an insert that returned took the mutable lock of the entry of its
\* encoded key and no other, left the entry Some(encoded value) and holds no
\* lock it did not hold before; a get or get_mut that returned gives the
\* value last inserted under its key, or None when none was; and one that
\* returned None holds no lock it did not hold before.
C31_InsertWritesAndUnlocks ==
    /\ [][(kv_store'.last.op = "insert" /\ kv_store'.last.res = "Ok"
              /\ kv_store'.last # kv_store.last) =>
             LET call == kv_store'.last
                 offset == scrypto_encode(call.key[1])
             IN /\ call.locked = <<offset, TRUE>>
                /\ kv_store'.held = kv_store.held
                /\ kv_store'.entries[offset] = Entry(scrypto_encode(call.value[1]))
                /\ \A o \in EntryOffsets \ {offset} :
                      kv_store'.entries[o] = kv_store.entries[o]]_vars
    /\ []((kv_store.last.op \in {"get", "get_mut"} /\ kv_store.last.res = "Ok") =>
             /\ kv_store.last.out = kv_store.latest[kv_store.last.key[1]]
             /\ (kv_store.last.out = None => kv_store.held = kv_store.last.held_before))

\* C31 witness: a get returned the value an insert had written under the key
\* when both keys had been inserted and the value was not the first one.
C31_GetAfterInserts ==
    /\ kv_store.last.op = "get"
    /\ kv_store.last.res = "Ok"
    /\ kv_store.last.out = Some(MaxKvValue)
    /\ \A o \in EntryOffsets : kv_store.entries[o].some
    /\ kv_store.held # EmptyMap

\* ----------------------------------------------------------------- Parser
MaxTokens == 5

\* TokenKind: the marks, a literal, an alias that takes one value, an
\* instruction without values and one with values and an argument list.
TokenKinds ==
    {"OpenParenthesis", "CloseParenthesis", "Comma", "Semicolon", "U8Literal", "Some",
     "DropAllProofs", "CallNativeFunction"}

TokenSeqs == UNION {[1..n -> TokenKinds] : n \in 0..MaxTokens}

\* What peek finds at the end of the tokens.
Eof == "Eof"

\* Parser::peek: the kind of the token at `current`, if there is one.
peek(p) == IF p.current < Len(p.tokens) THEN p.tokens[p.current + 1] ELSE Eof

\* Parser::is_eof
is_eof(p) == p.current = Len(p.tokens)

\* ParserError and the Ok of the call; a token is its kind and its place.
Parsed(kind) == [kind |-> kind, token |-> "", at |-> 0, actual |-> 0]
UnexpectedEof == Parsed("UnexpectedEof")
UnexpectedToken(p) == [Parsed("UnexpectedToken") EXCEPT !.token = peek(p), !.at = p.current + 1]
InvalidNumberOfValues(n) == [Parsed("InvalidNumberOfValues") EXCEPT !.actual = n]

\* A routine of the parser that has been called and has not returned, with
\* the values a parse_values_any has collected.
Routine(t) == [t |-> t, values |-> <<>>]

\* Parser::new(tokens), and the routine called on it.
ParserNew(entry, tokens) ==
    [entry |-> entry, tokens |-> tokens, current |-> 0, stack |-> <<Routine(entry)>>,
     value |-> <<>>, values |-> <<>>, instructions |-> 0, start |-> 0,
     res |-> Parsed("Running")]

ParserInit ==
    /\ KernelFields(ZeroFeeTable, 0)
    /\ HeapNew
    /\ NoGenerator
    /\ NoConversion
    /\ NoMove
    /\ NoKvStore
    /\ NoDrop
    /\ NoParser

ParserCall ==
    /\ parser = NoCall
    /\ \E entry \in {"parse_manifest", "parse_values_one"}, tokens \in TokenSeqs :
          parser' = ParserNew(entry, tokens)
    /\ UNCHANGED <<kernel_vars, heap, heap_call, id_generators, generator_calls, conversion,
                   move_stack, kv_store, drop_call>>

\* The routine the parser is in.
Top(p) == p.stack[Len(p.stack)].t
InRoutine(t) ==
    /\ parser # NoCall
    /\ parser.res.kind = "Running"
    /\ parser.stack # <<>>
    /\ Top(parser) = t

\* The routine returns Err: `?` hands it up through every caller.
Raise(p, e) == [p EXCEPT !.res = e, !.stack = <<>>]

\* The routine returns Ok to its caller; the outermost one ends the call.
Pop(p) ==
    LET rest == SubSeq(p.stack, 1, Len(p.stack) - 1)
    IN [p EXCEPT !.stack = rest, !.res = IF rest = <<>> THEN Parsed("Ok") ELSE @]

\* The routine goes on with the routines `ts`, the first of them first.
Continue(p, ts) ==
    [p EXCEPT !.stack = SubSeq(@, 1, Len(@) - 1)
                            \o [i \in 1..Len(ts) |-> Routine(ts[Len(ts) + 1 - i])]]

\* `advance_match!(self, expected)`: the token is taken, then compared.
advance_match(p, expected) ==
    IF peek(p) = Eof THEN Raise(p, UnexpectedEof)
    ELSE IF peek(p) # expected THEN Raise([p EXCEPT !.current = @ + 1], UnexpectedToken(p))
    ELSE [p EXCEPT !.current = @ + 1]

\* Parser::parse_manifest: one test of `while !self.is_eof()`.
ParseManifest ==
    /\ InRoutine("parse_manifest")
    /\ parser' = IF is_eof(parser) THEN Pop(parser)
                 ELSE [parser EXCEPT !.stack = Append(@, Routine("parse_instruction")),
                                     !.start = parser.current]
    /\ UNCHANGED <<kernel_vars, heap, heap_call, id_generators, generator_calls, conversion,
                   move_stack, kv_store, drop_call>>

\* Parser::parse_instruction up to the values of the instruction.
ParseInstruction ==
    /\ InRoutine("parse_instruction")
    /\ LET token == peek(parser)
           advanced == [parser EXCEPT !.current = @ + 1]
       IN parser' =
             CASE token = Eof -> Raise(parser, UnexpectedEof)
               [] token = "DropAllProofs" -> Continue(advanced, <<"semicolon">>)
               [] token = "CallNativeFunction" ->
                     Continue(advanced, <<"parse_value", "parse_value", "args", "semicolon">>)
               [] OTHER -> Raise(advanced, UnexpectedToken(parser))
    /\ UNCHANGED <<kernel_vars, heap, heap_call, id_generators, generator_calls, conversion,
                   move_stack, kv_store, drop_call>>

\* `while self.peek()?.kind != TokenKind::Semicolon { values.push(self.parse_value()?) }`
ParseArgs ==
    /\ InRoutine("args")
    /\ parser' =
          CASE peek(parser) = Eof -> Raise(parser, UnexpectedEof)
            [] peek(parser) = "Semicolon" -> Pop(parser)
            [] OTHER -> [parser EXCEPT !.stack = Append(@, Routine("parse_value"))]
    /\ UNCHANGED <<kernel_vars, heap, heap_call, id_generators, generator_calls, conversion,
                   move_stack, kv_store, drop_call>>

\* `advance_match!(self, TokenKind::Semicolon); Ok(instruction)`
ParseSemicolon ==
    /\ InRoutine("semicolon")
    /\ LET matched == advance_match(parser, "Semicolon")
       IN parser' = IF matched.res.kind # "Running" THEN matched
                    ELSE [Pop(matched) EXCEPT !.instructions = @ + 1]
    /\ UNCHANGED <<kernel_vars, heap, heap_call, id_generators, generator_calls, conversion,
                   move_stack, kv_store, drop_call>>

\* Parser::parse_value up to the second mark of a unit, and parse_alias up to
\* its parse_values_one.
ParseValue ==
    /\ InRoutine("parse_value")
    /\ LET token == peek(parser)
           advanced == [parser EXCEPT !.current = @ + 1]
       IN parser' =
             CASE token = Eof -> Raise(parser, UnexpectedEof)
               [] token = "OpenParenthesis" -> Continue(advanced, <<"unit">>)
               [] token = "U8Literal" -> Pop([advanced EXCEPT !.value = <<"U8">>])
               [] token = "Some" -> Continue(advanced, <<"parse_values_one", "some">>)
               [] OTHER -> Raise(parser, UnexpectedToken(parser))
    /\ UNCHANGED <<kernel_vars, heap, heap_call, id_generators, generator_calls, conversion,
                   move_stack, kv_store, drop_call>>

\* `advance_match!(self, TokenKind::CloseParenthesis); Ok(Value::Unit)`
ParseUnit ==
    /\ InRoutine("unit")
    /\ LET closed == advance_match(parser, "CloseParenthesis")
       IN parser' = IF closed.res.kind # "Running" THEN closed
                    ELSE Pop([closed EXCEPT !.value = <<"Unit">>])
    /\ UNCHANGED <<kernel_vars, heap, heap_call, id_generators, generator_calls, conversion,
                   move_stack, kv_store, drop_call>>

\* `Ok(Value::Some(Box::new(self.parse_values_one()?)))`
ParseSome ==
    /\ InRoutine("some")
    /\ parser' = Pop([parser EXCEPT !.value = <<"Some">> \o @])
    /\ UNCHANGED <<kernel_vars, heap, heap_call, id_generators, generator_calls, conversion,
                   move_stack, kv_store, drop_call>>

\* Parser::parse_values_one calls parse_values_any; its test of the length follows.
ParseValuesOne ==
    /\ InRoutine("parse_values_one")
    /\ parser' = Continue(parser, <<"parse_values_any", "values_len">>)
    /\ UNCHANGED <<kernel_vars, heap, heap_call, id_generators, generator_calls, conversion,
                   move_stack, kv_store, drop_call>>

ParseValuesLenAtLeastOne ==
    /\ InRoutine("values_len")
    /\ parser' = IF Len(parser.values) = 0
                 THEN Raise(parser, InvalidNumberOfValues(Len(parser.values)))
                 ELSE Pop([parser EXCEPT !.value = parser.values[1]])
    /\ UNCHANGED <<kernel_vars, heap, heap_call, id_generators, generator_calls, conversion,
                   move_stack, kv_store, drop_call>>

\* `if values.len() != 1 { Err(InvalidNumberOfValues {..}) } else { Ok(values[0].clone()) }`
ParseValuesLen ==
    /\ InRoutine("values_len")
    /\ parser' = IF Len(parser.values) # 1
                 THEN Raise(parser, InvalidNumberOfValues(Len(parser.values)))
                 ELSE Pop([parser EXCEPT !.value = parser.values[1]])
    /\ UNCHANGED <<kernel_vars, heap, heap_call, id_generators, generator_calls, conversion,
                   move_stack, kv_store, drop_call>>

ParseValuesAnyPastEnd ==
    /\ InRoutine("parse_values_any")
    /\ LET advanced == [parser EXCEPT !.current = @ + 1]
       IN parser' = IF peek(parser) = Eof THEN Raise(advanced, UnexpectedEof)
                    ELSE IF peek(parser) # "OpenParenthesis"
                    THEN Raise(advanced, UnexpectedToken(parser))
                    ELSE Continue(advanced, <<"list">>)
    /\ UNCHANGED <<kernel_vars, heap, heap_call, id_generators, generator_calls, conversion,
                   move_stack, kv_store, drop_call>>

\* Parser::parse_values_any: `advance_match!(self, open); let mut values = Vec::new();`
ParseValuesAny ==
    /\ InRoutine("parse_values_any")
    /\ LET opened == advance_match(parser, "OpenParenthesis")
       IN parser' = IF opened.res.kind # "Running" THEN opened
                    ELSE Continue(opened, <<"list">>)
    /\ UNCHANGED <<kernel_vars, heap, heap_call, id_generators, generator_calls, conversion,
                   move_stack, kv_store, drop_call>>

\* One test of `while self.peek()?.kind != close`: a value is parsed, or the
\* loop is left, `advance_match!(self, close)` takes the mark and the values
\* are returned.
ParseList ==
    /\ InRoutine("list")
    /\ parser' =
          CASE peek(parser) = Eof -> Raise(parser, UnexpectedEof)
            [] peek(parser) = "CloseParenthesis" ->
                  Pop([parser EXCEPT !.current = @ + 1,
                                     !.values = parser.stack[Len(parser.stack)].values])
            [] OTHER ->
                  [parser EXCEPT !.stack = @ \o <<Routine("element"), Routine("parse_value")>>]
    /\ UNCHANGED <<kernel_vars, heap, heap_call, id_generators, generator_calls, conversion,
                   move_stack, kv_store, drop_call>>

\* `values.push(..); if self.peek()?.kind != close { advance_match!(self, TokenKind::Comma); }`
ParseElement ==
    /\ InRoutine("element")
    /\ LET n == Len(parser.stack)
           pushed == [parser EXCEPT !.stack[n - 1].values = Append(@, parser.value)]
           matched == advance_match(pushed, "Comma")
       IN parser' =
             CASE peek(parser) = Eof -> Raise(pushed, UnexpectedEof)
               [] peek(parser) = "CloseParenthesis" -> Pop(pushed)
               [] OTHER -> IF matched.res.kind # "Running" THEN matched ELSE Pop(matched)
    /\ UNCHANGED <<kernel_vars, heap, heap_call, id_generators, generator_calls, conversion,
                   move_stack, kv_store, drop_call>>

\* The steps of a parse that has been called.
ParserRun ==
    \/ ParseManifest
    \/ ParseInstruction
    \/ ParseArgs
    \/ ParseSemicolon
    \/ ParseValue
    \/ ParseUnit
    \/ ParseSome
    \/ ParseValuesOne
    \/ ParseValuesLen
    \/ ParseValuesAny
    \/ ParseList
    \/ ParseElement

ParserNext ==
    \/ ParserCall
    \/ ParserRun

\* The call runs on: a routine that can take its next step does.
ParserSpec == ParserInit /\ [][ParserNext]_vars /\ WF_vars(ParserRun)

\* The call of the routine `entry` has returned.
Returned(entry) ==
    /\ parser # NoCall
    /\ parser.entry = entry
    /\ parser.res.kind # "Running"

\* "(" v "," v ... ")" with n literals, and a comma after the last if `trailing`.
LitList(n, trailing) ==
    <<"OpenParenthesis">>
        \o [i \in 1..(IF n = 0 THEN 0 ELSE 2 * n - 1 + (IF trailing THEN 1 ELSE 0)) |->
               IF i % 2 = 1 THEN "U8Literal" ELSE "Comma"]
        \o <<"CloseParenthesis">>

IsPrefix(s, t) == Len(s) <= Len(t) /\ SubSeq(t, 1, Len(s)) = s

\* C32: a parse_values_one that returned gave Ok only with the single value
\* of its list and InvalidNumberOfValues only with the number of values of a
\* list that has not one; on a list of n literals it returns the literal
\* when n = 1 and InvalidNumberOfValues {actual: n, expected: 1} otherwise,
\* the cursor behind the closing mark; a token after a literal that is
\* neither a comma nor the closing mark gives UnexpectedToken with that
\* token; tokens that end inside the list give UnexpectedEof.
C32_ValuesOne ==
    Returned("parse_values_one") =>
        LET tokens == parser.tokens
            res == parser.res
        IN /\ (res.kind = "Ok") =>
                 /\ Len(parser.values) = 1
                 /\ parser.value = parser.values[1]
           /\ (res.kind = "InvalidNumberOfValues") =>
                 /\ res.actual = Len(parser.values)
                 /\ res.actual # 1
           /\ \A n \in 0..MaxTokens, trailing \in BOOLEAN :
                 ((n > 0 \/ ~trailing) /\ IsPrefix(LitList(n, trailing), tokens)) =>
                    /\ parser.current = Len(LitList(n, trailing))
                    /\ IF n = 1 THEN res = Parsed("Ok") /\ parser.value = <<"U8">>
                       ELSE res = InvalidNumberOfValues(n)
           /\ \A n \in 1..MaxTokens :
                 (/\ Len(tokens) > 2 * n
                  /\ SubSeq(tokens, 1, 2 * n) = SubSeq(LitList(n, FALSE), 1, 2 * n)
                  /\ tokens[2 * n + 1] \notin {"Comma", "CloseParenthesis"}) =>
                    res = [Parsed("UnexpectedToken") EXCEPT !.token = tokens[2 * n + 1],
                                                             !.at = 2 * n + 1]
           /\ (\E n \in 0..MaxTokens, trailing \in BOOLEAN :
                  /\ n > 0 \/ ~trailing
                  /\ Len(tokens) < Len(LitList(n, trailing))
                  /\ IsPrefix(tokens, LitList(n, trailing))) =>
                    res = UnexpectedEof

\* C32 witness: a list of two values was refused with actual = 2.
C32_TwoValuesRefused ==
    /\ Returned("parse_values_one")
    /\ parser.res = InvalidNumberOfValues(2)
    /\ Len(parser.values) = 2

\* The instructions of the tokens: each ends with its semicolon.
Semicolons(tokens) == Cardinality({i \in DOMAIN tokens : tokens[i] = "Semicolon"})

\* C40: a parse_manifest that was called returns; the cursor is never beyond
\* the tokens; an instruction that was parsed has taken at least one token;
\* a step that fails with UnexpectedEof finds the cursor at the end of the
\* tokens and leaves it there; Ok comes with the cursor at the end of the
\* tokens and every instruction of them parsed; and what the call returned,
\* the first error included, stays.
C40_ManifestTerminates ==
    /\ (parser # NoCall /\ parser.entry = "parse_manifest") ~> Returned("parse_manifest")
    /\ [](parser # NoCall => parser.current <= Len(parser.tokens))
    /\ [][(parser # NoCall /\ parser'.instructions # parser.instructions) =>
             /\ parser'.instructions = parser.instructions + 1
             /\ parser'.current > parser'.start]_vars
    /\ [][(parser # NoCall /\ parser.res.kind = "Running"
              /\ parser'.res.kind = "UnexpectedEof") =>
             /\ parser.current = Len(parser.tokens)
             /\ parser'.current = parser.current]_vars
    /\ []((Returned("parse_manifest") /\ parser.res.kind = "Ok") =>
             /\ parser.current = Len(parser.tokens)
             /\ parser.instructions = Semicolons(parser.tokens)
             /\ parser.stack = <<>>)
    /\ [][(parser # NoCall /\ parser.res.kind # "Running") => parser' = parser]_vars

\* C40 witness: a manifest of two instructions was parsed to its end.
C40_TwoInstructionsParsed ==
    /\ Returned("parse_manifest")
    /\ parser.res.kind = "Ok"
    /\ parser.instructions = 2

====
